---- MODULE Spec2Model ----
(***************************************************************************)
(* Model of vacuum_map_parser_base: the colour palette (config/color.py),  *)
(* the map renderer (image_generator.py) over the parsed map model         *)
(* (map_data.py), the geometry of that model (to_img, rotated,             *)
(* calibration) and the placeholder of a parser without a map              *)
(* (map_data_parser.py).                                                   *)
(*                                                                         *)
(* Python values are modelled as follows.  An optional value is a set of   *)
(* at most one element: None is {}, a present value v is {v}.  A Color is  *)
(* a tuple of 3 or 4 channel values.  A str that holds a number is a       *)
(* sequence of one-character strings ("-", "0".."9"), so that int() and    *)
(* str() are conversions that can be computed.  A dict is a function,      *)
(* dict.get(k, d) is Get(dict, k, d).  A scale s is held as the whole      *)
(* number s * ScaleDen, and coordinates are whole pixels: a product with   *)
(* a scale is rounded down to the pixel it falls in.  The geometry is      *)
(* exact: there a position on the image is a whole number of 1/ScaleDen    *)
(* of a pixel.                                                             *)
(*                                                                         *)
(* Pillow is outside the repository.  Its pixel buffers are modelled by    *)
(* [w, h, px], its drawing primitives by painting the bounding box of the  *)
(* shape (outline colour on the border, fill inside), alpha_composite by   *)
(* Pillow's integer formula, and resize(BOX) by the premultiplied mean of  *)
(* the source pixels that fall on a target pixel.                          *)
(***************************************************************************)
EXTENDS Integers, Sequences, FiniteSets, TLC

VARIABLES
    overriden_colors,       \* ColorsPalette._overriden_colors
    overriden_room_colors,  \* ColorsPalette._overriden_room_colors
    random_draws,           \* number of values drawn so far from ColorsPalette._random
    call,                   \* the last palette call: its argument, key and result
    overriden_sizes,        \* Sizes._overriden_sizes
    drawables,              \* ImageGenerator._drawables
    texts,                  \* ImageGenerator._texts
    image_config,           \* ImageGenerator._image_config
    map_data,               \* the MapData given to draw_map
    pc,                     \* where draw_map stands
    idx,                    \* index of the next entry of the loop draw_map is in
    trace,                  \* what draw_map has invoked so far, in order
    calls,                  \* the compositor calls made so far, in order
    entry,                  \* map_data as it was when draw_map was first entered
    font_trace,             \* the font loads and the warnings of _draw_texts, in order
    other,                  \* a second draw_map call on a MapData of its own
    subject,                \* the MapData whose geometry is asked for
    answer                  \* the last geometry call: its arguments and result

paletteVars == <<overriden_colors, overriden_room_colors, random_draws, call>>

renderVars ==
    <<overriden_sizes, drawables, texts, image_config, map_data, pc, idx, trace, calls, entry,
      font_trace, other>>

geometryVars == <<subject, answer>>

vars == <<paletteVars, renderVars, geometryVars>>

None == {}

Some(v) == {v}

The(o) == CHOOSE v \in o : TRUE

\* dict.get(key, default)
Get(dict, key, default) == IF key \in DOMAIN dict THEN dict[key] ELSE default

EmptyDict == [k \in {} |-> None]

(***************************************************************************)
(* config/color.py                                                         *)
(***************************************************************************)

SupportedColor ==
    { "color_carpets", "color_charger", "color_charger_outline",
      "color_cleaned_area", "color_goto_path", "color_grey_wall",
      "color_ignored_obstacle", "color_ignored_obstacle_with_photo",
      "color_map_inside", "color_map_outside", "color_map_wall",
      "color_map_wall_v2", "color_mop_path", "color_new_discovered_area",
      "color_no_carpet_zones", "color_no_carpet_zones_outline",
      "color_no_go_zones", "color_no_go_zones_outline",
      "color_no_mop_zones", "color_no_mop_zones_outline",
      "color_obstacle", "color_obstacle_with_photo", "color_path",
      "color_predicted_path", "color_robo", "color_robo_outline",
      "color_room_names", "color_scan", "color_unknown",
      "color_virtual_walls", "color_zones", "color_zones_outline" }

\* ColorsPalette.COLORS, entry by entry
COLORS ==
    [ color_map_inside |-> <<32, 115, 185>>,
      color_map_outside |-> <<19, 87, 148>>,
      color_map_wall |-> <<100, 196, 254>>,
      color_map_wall_v2 |-> <<93, 109, 126>>,
      color_grey_wall |-> <<93, 109, 126>>,
      color_cleaned_area |-> <<127, 127, 127, 127>>,
      color_path |-> <<147, 194, 238>>,
      color_goto_path |-> <<0, 255, 0>>,
      color_predicted_path |-> <<255, 255, 0>>,
      color_zones |-> <<173, 216, 255, 143>>,
      color_zones_outline |-> <<173, 216, 255>>,
      color_virtual_walls |-> <<255, 0, 0>>,
      color_new_discovered_area |-> <<64, 64, 64>>,
      color_carpets |-> <<169, 247, 169>>,
      color_no_carpet_zones |-> <<255, 33, 55, 127>>,
      color_no_carpet_zones_outline |-> <<255, 0, 0>>,
      color_no_go_zones |-> <<255, 33, 55, 127>>,
      color_no_go_zones_outline |-> <<255, 0, 0>>,
      color_no_mop_zones |-> <<163, 130, 211, 127>>,
      color_no_mop_zones_outline |-> <<163, 130, 211>>,
      color_charger |-> <<102, 254, 218, 127>>,
      color_charger_outline |-> <<102, 254, 218, 127>>,
      color_robo |-> <<255, 255, 255>>,
      color_robo_outline |-> <<0, 0, 0>>,
      color_room_names |-> <<0, 0, 0>>,
      color_obstacle |-> <<0, 0, 0, 128>>,
      color_ignored_obstacle |-> <<0, 0, 0, 128>>,
      color_obstacle_with_photo |-> <<0, 0, 0, 128>>,
      color_ignored_obstacle_with_photo |-> <<0, 0, 0, 128>>,
      color_unknown |-> <<0, 0, 0>>,
      color_scan |-> <<223, 223, 223>> ]

\* The characters "0".."9", by digit value + 1
DigitChar == <<"0", "1", "2", "3", "4", "5", "6", "7", "8", "9">>

DigitVal(c) == (CHOOSE i \in 1..10 : DigitChar[i] = c) - 1

RECURSIVE NatToStr(_)
NatToStr(n) ==
    IF n < 10 THEN <<DigitChar[n + 1]>>
    ELSE NatToStr(n \div 10) \o <<DigitChar[(n % 10) + 1]>>

\* str(n) of an int
IntToStr(n) == IF n < 0 THEN <<"-">> \o NatToStr(-n) ELSE NatToStr(n)

RECURSIVE DigitsToNat(_, _)
DigitsToNat(s, acc) ==
    IF s = <<>> THEN acc
    ELSE DigitsToNat(Tail(s), acc * 10 + DigitVal(Head(s)))

\* int(s) of a str holding a decimal number (leading zeros and a sign allowed)
StrToInt(s) ==
    IF Head(s) = "-" THEN -DigitsToNat(Tail(s), 0) ELSE DigitsToNat(s, 0)

\* The values of ColorsPalette.ROOM_COLORS in the order of their keys "1".."16"
RoomColorValues ==
    << <<240, 178, 122>>, <<133, 193, 233>>, <<217, 136, 128>>,
       <<52, 152, 219>>, <<205, 97, 85>>, <<243, 156, 18>>,
       <<88, 214, 141>>, <<245, 176, 65>>, <<252, 212, 81>>,
       <<72, 201, 176>>, <<84, 153, 199>>, <<133, 193, 233>>,
       <<245, 176, 65>>, <<82, 190, 128>>, <<72, 201, 176>>,
       <<165, 105, 189>> >>

\* ColorsPalette.ROOM_COLORS: keyed by the strings "1".."16"
ROOM_COLORS ==
    [k \in {IntToStr(n) : n \in 1..Len(RoomColorValues)} |-> RoomColorValues[StrToInt(k)]]

\* get_color with the two tables consulted in the wrong order
get_color_builtin_first(color_name) ==
    Get(COLORS, color_name,
        Get(overriden_colors, color_name, Get(COLORS, "color_unknown", <<0, 0, 0>>)))

\* ColorsPalette.get_color
get_color(color_name) ==
    Get(overriden_colors, color_name,
        Get(COLORS, color_name, Get(COLORS, "color_unknown", <<0, 0, 0>>)))

\* isinstance(room_id, str): a room id is [type |-> "str" or "int", v |-> value]
AsInt(room_id) == IF room_id.type = "str" THEN StrToInt(room_id.v) ELSE room_id.v

\* The key with the wrap computed as id mod 16, which sends 16, 32, ... to 0
RoomKey_plain_mod(room_id) ==
    LET id == AsInt(room_id)
        n  == Cardinality(DOMAIN ROOM_COLORS)
    IN  IntToStr(IF id > n THEN id % n ELSE id)

\* ColorsPalette.get_room_color, lines 130-135: the key that is looked up
RoomKey(room_id) ==
    LET id == AsInt(room_id)
        n  == Cardinality(DOMAIN ROOM_COLORS)
    IN  IntToStr(IF id > n THEN ((id - 1) % n) + 1 ELSE id)

\* ColorsPalette.get_room_color, lines 136-144: the lookup, given the value
\* randint(1, 16) returned
RoomLookup(key, drawn) ==
    Get(overriden_room_colors, key,
        Get(ROOM_COLORS, key, Get(ROOM_COLORS, IntToStr(drawn), <<0, 0, 0>>)))

(***************************************************************************)
(* config/size.py, config/drawable.py                                      *)
(***************************************************************************)

\* Sizes.SIZES
SIZES ==
    [ vacuum_radius |-> 6,
      path_width |-> 1,
      ignored_obstacle_radius |-> 3,
      ignored_obstacle_with_photo_radius |-> 3,
      obstacle_radius |-> 3,
      obstacle_with_photo_radius |-> 3,
      charger_radius |-> 6 ]

\* Sizes.get_size
get_size(size) == Get(overriden_sizes, size, Get(SIZES, size, 1))

\* The values of the Drawable enumeration
Drawable ==
    { "charger", "cleaned_area", "goto_path", "ignored_obstacles",
      "ignored_obstacles_with_photo", "mop_path", "no_carpet_zones",
      "no_go_zones", "no_mopping_zones", "obstacles", "obstacles_with_photo",
      "path", "predicted_path", "room_names", "vacuum_position",
      "virtual_walls", "zones" }

(***************************************************************************)
(* map_data.py                                                             *)
(***************************************************************************)

\* A scale s is the whole number s * ScaleDen
ScaleDen == 2

\* v * scale, rounded down to a whole pixel
Scaled(v, scale) == (v * scale) \div ScaleDen

\* Point(x, y, a)
Point(x, y, a) == [x |-> x, y |-> y, a |-> a]

\* ImageDimensions.img_transformation: the parser's axis remap, one of these
ApplyTransformation(t, p) ==
    CASE t = "identity" -> p
      [] t = "swap_xy"  -> Point(p.y, p.x, p.a)

\* ImageDimensions.to_img
to_img(dims, point) ==
    LET p == ApplyTransformation(dims.img_transformation, point)
    IN  Point(Scaled(p.x - dims.left, dims.scale),
              Scaled(dims.height - (p.y - dims.top) - 1, dims.scale),
              None)

\* Point.__mul__
PointTimes(p, scale) == Point(Scaled(p.x, scale), Scaled(p.y, scale), p.a)

\* Zone.as_area
as_area(z) ==
    [x0 |-> z.x0, y0 |-> z.y0, x1 |-> z.x0, y1 |-> z.y1,
     x2 |-> z.x1, y2 |-> z.y1, x3 |-> z.x1, y3 |-> z.y0]

\* Area.to_img followed by Area.as_list: the four corners in image space
AreaToImg(area, dims) ==
    << to_img(dims, Point(area.x0, area.y0, None)),
       to_img(dims, Point(area.x1, area.y1, None)),
       to_img(dims, Point(area.x2, area.y2, None)),
       to_img(dims, Point(area.x3, area.y3, None)) >>

\* Wall.to_img followed by Wall.as_list: the two ends in image space
WallToImg(wall, dims) ==
    << to_img(dims, Point(wall.x0, wall.y0, None)),
       to_img(dims, Point(wall.x1, wall.y1, None)) >>

\* Room.point
RoomPoint(room) ==
    IF room.pos_x # None /\ room.pos_y # None /\ room.name # None
    THEN Some(Point(The(room.pos_x), The(room.pos_y), None))
    ELSE None

\* ImageData.__init__ (trim percentages are whole numbers here)
ImageData(size, top, left, height, width, config, data, img_transformation, additional_layers) ==
    LET trim_left   == (config.trim.left * width) \div 100
        trim_right  == (config.trim.right * width) \div 100
        trim_top    == (config.trim.top * height) \div 100
        trim_bottom == (config.trim.bottom * height) \div 100
        layers      == IF additional_layers = None THEN EmptyDict ELSE The(additional_layers)
    IN  [ size |-> size,
          dimensions |->
              [ top |-> top + trim_bottom,
                left |-> left + trim_left,
                height |-> height - trim_top - trim_bottom,
                width |-> width - trim_left - trim_right,
                scale |-> config.scale,
                rotation |-> config.rotate,
                img_transformation |-> img_transformation ],
          is_empty |-> (height = 0 \/ width = 0),
          data |-> data,
          additional_layers |->
              [name \in {n \in DOMAIN layers : layers[n] # None} |-> The(layers[name])] ]

(***************************************************************************)
(* Pillow: pixel buffers and drawing primitives                            *)
(***************************************************************************)

Pixels(w, h) == (0..(w - 1)) \X (0..(h - 1))

\* Image.new("RGBA", (w, h), color)
NewImage(w, h, color) == [w |-> w, h |-> h, px |-> [p \in Pixels(w, h) |-> color]]

\* The RGBA value ImageDraw writes for a colour: a 3-tuple is opaque
Ink(color) == IF Len(color) = 3 THEN color \o <<255>> ELSE color

Min(a, b) == IF a < b THEN a ELSE b

Max(a, b) == IF a > b THEN a ELSE b

\* A drawing primitive: the shape, its bounding box and its colours
Prim(shape, xa, ya, xb, yb, fill, outline, arg) ==
    [ shape |-> shape,
      x0 |-> Min(xa, xb), y0 |-> Min(ya, yb),
      x1 |-> Max(xa, xb), y1 |-> Max(ya, yb),
      fill |-> fill, outline |-> outline, arg |-> arg ]

InBox(p, prim) ==
    /\ prim.x0 <= p[1] /\ p[1] <= prim.x1
    /\ prim.y0 <= p[2] /\ p[2] <= prim.y1

OnBorder(p, prim) == p[1] \in {prim.x0, prim.x1} \/ p[2] \in {prim.y0, prim.y1}

\* One pixel after a primitive is drawn (ImageDraw in mode RGBA on an RGBA
\* image writes the ink, it does not blend)
PaintPixel(old, p, prim) ==
    IF ~InBox(p, prim) THEN old
    ELSE IF OnBorder(p, prim) /\ prim.outline # None THEN Ink(The(prim.outline))
    ELSE IF prim.fill # None THEN Ink(The(prim.fill))
    ELSE old

Paint(buf, prim) ==
    [buf EXCEPT !.px = [p \in DOMAIN buf.px |-> PaintPixel(buf.px[p], p, prim)]]

\* The primitives of one draw function, drawn in order
RECURSIVE PaintAll(_, _)
PaintAll(buf, prims) ==
    IF prims = <<>> THEN buf ELSE PaintAll(Paint(buf, Head(prims)), Tail(prims))

ShiftForDiv255(a) == ((a \div 256) + a) \div 256

\* One pixel of Image.alpha_composite(dst, src): src over dst
Over(src, dst) ==
    IF src[4] = 0 THEN dst
    ELSE LET blend   == dst[4] * (255 - src[4])
             outa255 == src[4] * 255 + blend
             coef1   == (src[4] * 255 * 255 * 128) \div outa255
             coef2   == 255 * 128 - coef1
             ch(c)   == ShiftForDiv255(src[c] * coef1 + dst[c] * coef2 + 16384) \div 128
         IN  <<ch(1), ch(2), ch(3), ShiftForDiv255(outa255 + 128)>>

\* A wrong paint order: the image composited over the layer
AlphaComposite_under(dst, src) ==
    [dst EXCEPT !.px = [p \in DOMAIN dst.px |-> Over(dst.px[p], src.px[p])]]

\* Image.alpha_composite(dst, src), for two buffers of one size
AlphaComposite(dst, src) ==
    [dst EXCEPT !.px = [p \in DOMAIN dst.px |-> Over(src.px[p], dst.px[p])]]

RECURSIVE SumOver(_, _)
SumOver(f, S) ==
    IF S = {} THEN 0
    ELSE LET x == CHOOSE x \in S : TRUE IN f[x] + SumOver(f, S \ {x})

\* The source pixels that fall on target pixel <<x, y>>
SourcePixels(layer, w, h, x, y) ==
    {s \in DOMAIN layer.px : (s[1] * w) \div layer.w = x /\ (s[2] * h) \div layer.h = y}

BoxMean(layer, S) ==
    LET alpha == SumOver([s \in S |-> layer.px[s][4]], S)
        ch(c) == SumOver([s \in S |-> layer.px[s][4] * layer.px[s][c]], S) \div alpha
    IN  IF alpha = 0 THEN <<0, 0, 0, 0>>
        ELSE <<ch(1), ch(2), ch(3), alpha \div Cardinality(S)>>

\* layer.resize((w, h), resample=Resampling.BOX)
Resize(layer, w, h) ==
    [ w |-> w, h |-> h,
      px |-> [p \in Pixels(w, h) |-> BoxMean(layer, SourcePixels(layer, w, h, p[1], p[2]))] ]

\* image.transpose(ROTATE_90 / ROTATE_180 / ROTATE_270): counter-clockwise turns
Transpose(buf, quarter_turns) ==
    CASE quarter_turns = 0 -> buf
      [] quarter_turns = 1 ->
           [ w |-> buf.h, h |-> buf.w,
             px |-> [p \in Pixels(buf.h, buf.w) |-> buf.px[<<buf.w - 1 - p[2], p[1]>>]] ]
      [] quarter_turns = 2 ->
           [ w |-> buf.w, h |-> buf.h,
             px |-> [p \in Pixels(buf.w, buf.h) |->
                        buf.px[<<buf.w - 1 - p[1], buf.h - 1 - p[2]>>]] ]
      [] quarter_turns = 3 ->
           [ w |-> buf.h, h |-> buf.w,
             px |-> [p \in Pixels(buf.h, buf.w) |-> buf.px[<<p[2], buf.h - 1 - p[1]>>]] ]

(***************************************************************************)
(* image_generator.py: the compositor                                      *)
(***************************************************************************)

\* ImageGenerator._use_transparency
_use_transparency(colors) == \E k \in 1..Len(colors) : Len(colors[k]) > 3

\* ImageGenerator._draw_layer_with_alpha
_draw_layer_with_alpha(image, layer) ==
    [image EXCEPT !.data = AlphaComposite(image.data, layer)]

\* A wrong choice of path: on the image itself when either condition holds
DrawsDirectly_either(scale, use_transparency) == scale = ScaleDen \/ ~use_transparency

\* _draw_on_new_layer, line 476: whether draw_function draws on the image itself
DrawsDirectly(scale, use_transparency) == scale = ScaleDen /\ ~use_transparency

\* _draw_on_new_layer, lines 480-483: the layer resized to the image when the
\* scale is not 1
FitLayer(image, layer, scale) ==
    IF scale # ScaleDen THEN Resize(layer, image.data.w, image.data.h) ELSE layer

\* What one call of _draw_on_new_layer did
CallRecord(path, image, draw_function, scale, use_transparency, layer_size, composites, painted) ==
    [ path |-> path, scale |-> scale, use_transparency |-> use_transparency,
      prims |-> draw_function, draw_function_calls |-> 1,
      layer_size |-> layer_size, resized |-> (path = "layer" /\ scale # ScaleDen),
      composites |-> composites,
      target_size |-> <<image.data.w, image.data.h>>,
      painted |-> painted ]

\* _draw_on_new_layer, lines 477-478: draw_function draws on image.data
DrawOnImage(image, draw_function, scale, use_transparency) ==
    [ image |-> [image EXCEPT !.data = PaintAll(image.data, draw_function)],
      call |-> CallRecord("direct", image, draw_function, scale, use_transparency,
                          None, 0, None) ]

\* _draw_on_new_layer, line 484: the finished layer is composited on the image
CompositeLayer(image, final, size, draw_function, scale, use_transparency) ==
    [ image |-> _draw_layer_with_alpha(image, final),
      call |-> CallRecord("layer", image, draw_function, scale, use_transparency,
                          Some(size), 1, Some(final)) ]

\* _draw_on_new_layer, lines 479-484: draw_function draws on a new transparent
\* layer of size int(image.size * scale)
DrawOnLayer(image, size, draw_function, scale, use_transparency) ==
    CompositeLayer(image,
                   FitLayer(image,
                            PaintAll(NewImage(size[1], size[2], <<255, 255, 255, 0>>),
                                     draw_function),
                            scale),
                   size, draw_function, scale, use_transparency)

\* ImageGenerator._draw_on_new_layer: the image after the call, and a record of
\* what the call did (draw_function is the sequence of primitives it draws)
_draw_on_new_layer(image, draw_function, scale, use_transparency) ==
    IF DrawsDirectly(scale, use_transparency)
    THEN DrawOnImage(image, draw_function, scale, use_transparency)
    ELSE DrawOnLayer(image, <<Scaled(image.data.w, scale), Scaled(image.data.h, scale)>>,
                     draw_function, scale, use_transparency)

(***************************************************************************)
(* image_generator.py: the draw functions                                  *)
(***************************************************************************)

\* 1000 * cos of the angles the vacuum icon needs, in degrees
CosTable == [d \in {0, 14, 76, 90} |-> CASE d = 0 -> 1000 [] d = 14 -> 970
                                         [] d = 76 -> 242 [] d = 90 -> 0]

\* 1000 * math.cos(deg / 180 * math.pi)
Cos1000(deg) ==
    LET m == deg % 360
    IN  CASE m <= 90  -> CosTable[m]
          [] m > 90 /\ m <= 180  -> -CosTable[180 - m]
          [] m > 180 /\ m <= 270 -> -CosTable[m - 180]
          [] m > 270 -> CosTable[360 - m]

\* 1000 * math.sin(deg / 180 * math.pi)
Sin1000(deg) == Cos1000(deg - 90)

\* c + sign * (r * num / 16) * trig / 1000, as a whole pixel
Offset(c, sign, r, num, trig) == (c * 16000 + sign * r * num * trig) \div 16000

\* draw.ellipse([x - r, y - r, x + r, y + r], outline, fill)
Ellipse(x, y, r, outline, fill) == Prim("ellipse", x - r, y - r, x + r, y + r, fill, outline, r)

\* draw.line([x0, y0, x1, y1], width, fill): a line along an axis is widened
\* across it
Line(xa, ya, xb, yb, width, color) ==
    LET w    == Max(width, 1)
        less == (w - 1) \div 2
        more == w \div 2
    IN  IF ya = yb
        THEN Prim("line", Min(xa, xb), ya - less, Max(xa, xb), ya + more, Some(color), None, width)
        ELSE IF xa = xb
        THEN Prim("line", xa - less, Min(ya, yb), xa + more, Max(ya, yb), Some(color), None, width)
        ELSE Prim("line", xa, ya, xb, yb, Some(color), None, width)

\* draw_func of ImageGenerator._draw_vacuum, lines 317-357 (vacuum_pos.a is set)
VacuumDrawFunc(dims, vacuum_pos, r, outline, fill) ==
    LET point == to_img(dims, vacuum_pos)
        a     == The(vacuum_pos.a)
        x     == point.x
        y     == point.y
        half_color == << (outline[1] + fill[1]) \div 2,
                         (outline[2] + fill[2]) \div 2,
                         (outline[3] + fill[3]) \div 2 >>
    IN  << Ellipse(x, y, r, Some(outline), Some(fill)) >>
        \o (IF r >= 8 THEN << Ellipse(x, y, (r * 14) \div 16, Some(outline), None) >> ELSE <<>>)
        \o << Line(Offset(x, -1, r, 13, Cos1000(a + 104)), Offset(y, 1, r, 13, Sin1000(a + 104)),
                   Offset(x, -1, r, 13, Cos1000(a - 104)), Offset(y, 1, r, 13, Sin1000(a - 104)),
                   1, outline),
              Ellipse(Offset(x, 1, r, 3, Cos1000(a)), Offset(y, -1, r, 3, Sin1000(a)),
                      (r * 4) \div 16, Some(outline), Some(fill)),
              Ellipse(Offset(x, 1, r, 10, Cos1000(a)), Offset(y, -1, r, 10, Sin1000(a)),
                      (r * 2) \div 16, Some(half_color), Some(half_color)) >>

\* draw_func of ImageGenerator._draw_circle
CircleDrawFunc(dims, center, r, outline, fill) ==
    LET point == to_img(dims, center)
    IN  << Ellipse(point.x, point.y, r, Some(outline), Some(fill)) >>

\* draw_func of ImageGenerator._draw_pieslice
PiesliceDrawFunc(dims, position, r, outline, fill) ==
    LET point == to_img(dims, position)
        angle == IF position.a # None THEN -The(position.a) ELSE 0
    IN  << Prim("pieslice", point.x - r, point.y - r, point.x + r, point.y + r,
                Some(fill), Some(outline), <<angle + 90, angle - 90>>) >>

\* draw_func of ImageGenerator._draw_areas: draw.polygon(polygon, fill, outline)
PolygonDrawFunc(polygon, fill, outline) ==
    << Prim("polygon",
            Min(Min(polygon[1].x, polygon[2].x), Min(polygon[3].x, polygon[4].x)),
            Min(Min(polygon[1].y, polygon[2].y), Min(polygon[3].y, polygon[4].y)),
            Max(Max(polygon[1].x, polygon[2].x), Max(polygon[3].x, polygon[4].x)),
            Max(Max(polygon[1].y, polygon[2].y), Max(polygon[3].y, polygon[4].y)),
            Some(fill), Some(outline), polygon) >>

\* draw_func of ImageGenerator._draw_walls
RECURSIVE WallsDrawFunc(_, _, _)
WallsDrawFunc(dims, walls, color) ==
    IF walls = <<>> THEN <<>>
    ELSE LET ends == WallToImg(Head(walls), dims)
         IN  << Line(ends[1].x, ends[1].y, ends[2].x, ends[2].y, 2, color) >>
             \o WallsDrawFunc(dims, Tail(walls), color)

\* draw_func of ImageGenerator._draw_path, lines 419-433: the segments from s
\* through the points left; first is whether no cap has been drawn yet
RECURSIVE SegmentsDrawFunc(_, _, _, _, _, _, _)
SegmentsDrawFunc(dims, s, points, first, scale, path_width, color) ==
    IF points = <<>> THEN <<>>
    ELSE LET e == PointTimes(to_img(dims, Head(points)), scale)
             r == Scaled(path_width, scale) \div 2
             Cap(c) == Prim("pieslice", c.x - r, c.y - r, c.x + r, c.y + r,
                            Some(color), Some(color), <<0, 360>>)
         IN  << Line(s.x, s.y, e.x, e.y, Scaled(path_width, scale), color) >>
             \o (IF path_width > 4
                 THEN (IF first THEN << Cap(s) >> ELSE <<>>) \o << Cap(e) >>
                 ELSE <<>>)
             \o SegmentsDrawFunc(dims, e, Tail(points), FALSE, scale, path_width, color)

\* A wrong draw_func of _draw_path: only the first polyline is drawn
PathDrawFunc_first_polyline(dims, paths, scale, path_width, color) ==
    IF paths = <<>> \/ Len(Head(paths)) <= 1 THEN <<>>
    ELSE SegmentsDrawFunc(dims, PointTimes(to_img(dims, Head(paths)[1]), scale),
                          Tail(Head(paths)), TRUE, scale, path_width, color)

\* draw_func of ImageGenerator._draw_path, lines 415-418
RECURSIVE PathDrawFunc(_, _, _, _, _)
PathDrawFunc(dims, paths, scale, path_width, color) ==
    IF paths = <<>> THEN <<>>
    ELSE LET current_path == Head(paths)
         IN  (IF Len(current_path) > 1
              THEN SegmentsDrawFunc(dims, PointTimes(to_img(dims, current_path[1]), scale),
                                    Tail(current_path), TRUE, scale, path_width, color)
              ELSE <<>>)
             \o PathDrawFunc(dims, Tail(paths), scale, path_width, color)

\* Font files that ImageFont.truetype can load
ReadableFonts == {"font.ttf"}

\* Font files for which ImageFont.truetype raises ImportError: Pillow was built
\* without the library that reads them
UnsupportedFonts == {"font.otf"}

\* ImageFont.truetype(font_file, font_size): the font is loaded, or the call
\* raises OSError for a file it cannot read
truetype(font_file) ==
    IF font_file \in ReadableFonts THEN "loaded"
    ELSE IF font_file \in UnsupportedFonts THEN "ImportError"
    ELSE "OSError"

\* draw_func of _draw_text, line 452: the condition under which the font is loaded
LoadsFont(font_file, font_size) ==
    font_file # None /\ font_size # None /\ The(font_size) > 0

\* A wrong draw_func: no warning when the font cannot be loaded
FontEvents_silent(k, font_file, font_size) ==
    IF LoadsFont(font_file, font_size)
    THEN << [ev |-> "truetype", text |-> k, font_file |-> The(font_file)] >>
    ELSE <<>>

\* draw_func of _draw_text, lines 451-457: the call of ImageFont.truetype and
\* the warning of the except clause it ends in, for entry k of the texts
FontEvents(k, font_file, font_size) ==
    IF LoadsFont(font_file, font_size)
    THEN << [ev |-> "truetype", text |-> k, font_file |-> The(font_file)] >>
         \o CASE truetype(The(font_file)) = "OSError" ->
                    << [ev |-> "warning", text |-> k, font_file |-> The(font_file),
                        message |-> "Unable to find font file: %s"] >>
              [] truetype(The(font_file)) = "ImportError" ->
                    << [ev |-> "warning", text |-> k, font_file |-> The(font_file),
                        message |-> "Unable to open font: %s"] >>
              [] truetype(The(font_file)) = "loaded" -> <<>>
    ELSE <<>>

\* Height and width of a character of Pillow's default font, in pixels
DefaultGlyph == 1

\* draw_func of ImageGenerator._draw_text: the font is loaded when a file and a
\* positive size are given and the file can be loaded, the text box is centred
\* on (x, y)
TextDrawFunc(text, x, y, color, font_file, font_size) ==
    LET loaded == /\ font_file # None /\ font_size # None
                  /\ The(font_size) > 0 /\ The(font_file) \in ReadableFonts
        glyph  == IF loaded THEN The(font_size) ELSE DefaultGlyph
        w      == Len(text) * glyph
        h      == glyph
        left   == (2 * x - w) \div 2
        top    == (2 * y - h) \div 2
    IN  << Prim("text", left, top, left + w - 1, top + h - 1, Some(color), None,
                [text |-> text, font |-> IF loaded THEN font_file ELSE None]) >>

(***************************************************************************)
(* image_generator.py: the element renderers                               *)
(***************************************************************************)

\* What a drawing routine returns: the image after it and the compositor calls
\* it made, each with the colours it gave to _use_transparency
Drawn(image, made) == [image |-> image, calls |-> made]

\* One call of _draw_on_new_layer(image, draw_func, scale, _use_transparency(colors))
LogCall(r, colors) == Drawn(r.image, << [colors |-> colors, op |-> r.call] >>)

OnLayer(image, draw_function, scale, colors) ==
    LogCall(_draw_on_new_layer(image, draw_function, scale, _use_transparency(colors)), colors)

\* _draw_vacuum, lines 315-316: draw_func sets vacuum_pos.a when it is None
WithHeading(vacuum_pos) ==
    IF vacuum_pos.a = None THEN [vacuum_pos EXCEPT !.a = Some(0)] ELSE vacuum_pos

\* A drawing routine's result and the vacuum position it leaves
AndPosition(d, vacuum_pos) == [image |-> d.image, calls |-> d.calls, vacuum_pos |-> vacuum_pos]

\* ImageGenerator._draw_vacuum
_draw_vacuum(image, vacuum_pos, r, outline, fill) ==
    AndPosition(OnLayer(image,
                        VacuumDrawFunc(image.dimensions, WithHeading(vacuum_pos), r, outline, fill),
                        ScaleDen, <<outline, fill>>),
                WithHeading(vacuum_pos))

\* ImageGenerator._draw_circle
_draw_circle(image, center, r, outline, fill) ==
    OnLayer(image, CircleDrawFunc(image.dimensions, center, r, outline, fill),
            ScaleDen, <<outline, fill>>)

\* ImageGenerator._draw_pieslice
_draw_pieslice(image, position, r, outline, fill) ==
    OnLayer(image, PiesliceDrawFunc(image.dimensions, position, r, outline, fill),
            ScaleDen, <<outline, fill>>)

\* One drawing routine after another: the image of the later, the calls of both
Then(before, d) == Drawn(d.image, before.calls \o d.calls)

\* ImageGenerator._draw_areas, lines 398-404: the areas left, after those drawn
RECURSIVE DrawEachArea(_, _, _, _)
DrawEachArea(drawn, areas, fill, outline) ==
    IF areas = <<>> THEN drawn
    ELSE DrawEachArea(
             Then(drawn,
                  OnLayer(drawn.image,
                          PolygonDrawFunc(AreaToImg(Head(areas), drawn.image.dimensions),
                                          fill, outline),
                          ScaleDen, <<outline, fill>>)),
             Tail(areas), fill, outline)

\* A wrong _draw_areas: without the early return, an empty list gets a layer
_draw_areas_without_return(image, areas, fill, outline) ==
    IF Len(areas) = 0 THEN OnLayer(image, <<>>, ScaleDen, <<outline, fill>>)
    ELSE DrawEachArea(Drawn(image, <<>>), areas, fill, outline)

\* ImageGenerator._draw_areas
_draw_areas(image, areas, fill, outline) ==
    IF Len(areas) = 0 THEN Drawn(image, <<>>)
    ELSE DrawEachArea(Drawn(image, <<>>), areas, fill, outline)

\* ImageGenerator._draw_all_obstacles, lines 294-295: the obstacles left
RECURSIVE DrawEachObstacle(_, _, _, _)
DrawEachObstacle(drawn, obstacles, radius, color) ==
    IF obstacles = <<>> THEN drawn
    ELSE DrawEachObstacle(
             Then(drawn, _draw_circle(drawn.image, Head(obstacles), radius, color, color)),
             Tail(obstacles), radius, color)

\* ImageGenerator._draw_all_obstacles
_draw_all_obstacles(image, obstacles, radius, color) ==
    DrawEachObstacle(Drawn(image, <<>>), obstacles, radius, color)

\* ImageGenerator._draw_path
_draw_path(image, path, path_width, color) ==
    IF Len(path.path) < 1 THEN Drawn(image, <<>>)
    ELSE OnLayer(image,
                 PathDrawFunc(image.dimensions, path.path, image_config.scale, path_width, color),
                 image_config.scale, <<color>>)

\* ImageGenerator._draw_text
_draw_text(image, text, x, y, color, font_file, font_size) ==
    OnLayer(image, TextDrawFunc(text, x, y, color, font_file, font_size), ScaleDen, <<color>>)

\* A renderer's result: the MapData with the image a drawing routine returned
WithImage(md, d) == [map_data |-> [md EXCEPT !.image = Some(d.image)], calls |-> d.calls]

\* A renderer that returns without drawing
Nothing(md) == [map_data |-> md, calls |-> <<>>]

\* ImageGenerator._draw_vacuum_path
_draw_vacuum_path(md) ==
    IF md.path # None /\ md.image # None
    THEN WithImage(md, _draw_path(The(md.image), The(md.path),
                                  get_size("path_width"), get_color("color_path")))
    ELSE Nothing(md)

\* ImageGenerator._draw_goto_path
_draw_goto_path(md) ==
    IF md.goto_path # None /\ md.image # None
    THEN WithImage(md, _draw_path(The(md.image), The(md.goto_path),
                                  get_size("path_width"), get_color("color_goto_path")))
    ELSE Nothing(md)

\* ImageGenerator._draw_predicted_path
_draw_predicted_path(md) ==
    IF md.predicted_path # None /\ md.image # None
    THEN WithImage(md, _draw_path(The(md.image), The(md.predicted_path),
                                  get_size("path_width"), get_color("color_predicted_path")))
    ELSE Nothing(md)

\* ImageGenerator._draw_mop_path
_draw_mop_path(md) ==
    IF md.mop_path # None /\ md.image # None
    THEN WithImage(md, _draw_path(The(md.image), The(md.mop_path),
                                  get_size("mop_path_width"), get_color("color_mop_path")))
    ELSE Nothing(md)

\* ImageGenerator._draw_no_carpet_areas
_draw_no_carpet_areas(md) ==
    IF md.no_carpet_areas # None /\ md.image # None
    THEN WithImage(md, _draw_areas(The(md.image), The(md.no_carpet_areas),
                                   get_color("color_no_carpet_zones"),
                                   get_color("color_no_carpet_zones_outline")))
    ELSE Nothing(md)

\* ImageGenerator._draw_no_go_areas
_draw_no_go_areas(md) ==
    IF md.no_go_areas # None /\ md.image # None
    THEN WithImage(md, _draw_areas(The(md.image), The(md.no_go_areas),
                                   get_color("color_no_go_zones"),
                                   get_color("color_no_go_zones_outline")))
    ELSE Nothing(md)

\* ImageGenerator._draw_no_mopping_areas
_draw_no_mopping_areas(md) ==
    IF md.no_mopping_areas # None /\ md.image # None
    THEN WithImage(md, _draw_areas(The(md.image), The(md.no_mopping_areas),
                                   get_color("color_no_mop_zones"),
                                   get_color("color_no_mop_zones_outline")))
    ELSE Nothing(md)

\* ImageGenerator._draw_walls, lines 163-172
DrawWalls(image, walls, color) ==
    OnLayer(image, WallsDrawFunc(image.dimensions, walls, color), ScaleDen, <<color>>)

\* ImageGenerator._draw_walls
_draw_walls(md) ==
    IF md.walls = None \/ md.image = None THEN Nothing(md)
    ELSE WithImage(md, DrawWalls(The(md.image), The(md.walls), get_color("color_virtual_walls")))

\* [z.as_area() for z in zones]
RECURSIVE ZonesAsAreas(_)
ZonesAsAreas(zones) ==
    IF zones = <<>> THEN <<>> ELSE <<as_area(Head(zones))>> \o ZonesAsAreas(Tail(zones))

\* ImageGenerator._draw_zones
_draw_zones(md) ==
    IF md.zones = None \/ md.image = None THEN Nothing(md)
    ELSE WithImage(md, _draw_areas(The(md.image), ZonesAsAreas(The(md.zones)),
                                   get_color("color_zones"), get_color("color_zones_outline")))

\* ImageGenerator._draw_charger
_draw_charger(md) ==
    IF md.charger = None \/ md.image = None THEN Nothing(md)
    ELSE WithImage(md, _draw_pieslice(The(md.image), The(md.charger),
                                      get_size("charger_radius"),
                                      get_color("color_charger_outline"),
                                      get_color("color_charger")))

\* ImageGenerator._draw_obstacles
_draw_obstacles(md) ==
    IF md.obstacles = None \/ md.image = None THEN Nothing(md)
    ELSE WithImage(md, _draw_all_obstacles(The(md.image), The(md.obstacles),
                                           get_size("obstacle_radius"),
                                           get_color("color_obstacle")))

\* ImageGenerator._draw_ignored_obstacles
_draw_ignored_obstacles(md) ==
    IF md.ignored_obstacles = None \/ md.image = None THEN Nothing(md)
    ELSE WithImage(md, _draw_all_obstacles(The(md.image), The(md.ignored_obstacles),
                                           get_size("ignored_obstacle_radius"),
                                           get_color("color_ignored_obstacle")))

\* ImageGenerator._draw_obstacles_with_photo
_draw_obstacles_with_photo(md) ==
    IF md.obstacles_with_photo = None \/ md.image = None THEN Nothing(md)
    ELSE WithImage(md, _draw_all_obstacles(The(md.image), The(md.obstacles_with_photo),
                                           get_size("obstacle_with_photo_radius"),
                                           get_color("color_obstacle_with_photo")))

\* ImageGenerator._draw_ignored_obstacles_with_photo
_draw_ignored_obstacles_with_photo(md) ==
    IF md.ignored_obstacles_with_photo = None \/ md.image = None THEN Nothing(md)
    ELSE WithImage(md, _draw_all_obstacles(The(md.image), The(md.ignored_obstacles_with_photo),
                                           get_size("ignored_obstacle_with_photo_radius"),
                                           get_color("color_ignored_obstacle_with_photo")))

\* The MapData after _draw_vacuum
WithVacuum(md, d) ==
    [ map_data |-> [md EXCEPT !.image = Some(d.image), !.vacuum_position = Some(d.vacuum_pos)],
      calls |-> d.calls ]

\* ImageGenerator._draw_vacuum_position
_draw_vacuum_position(md) ==
    IF md.vacuum_position = None \/ md.image = None THEN Nothing(md)
    ELSE WithVacuum(md, _draw_vacuum(The(md.image), The(md.vacuum_position),
                                     get_size("vacuum_radius"),
                                     get_color("color_robo_outline"),
                                     get_color("color_robo")))

\* _draw_room_names, lines 246-248: the name of one room
DrawRoomName(image, room, p, color) ==
    IF p # None /\ room.name # None
    THEN _draw_text(image, The(room.name),
                    to_img(image.dimensions, The(p)).x, to_img(image.dimensions, The(p)).y,
                    color, None, None)
    ELSE Drawn(image, <<>>)

\* ImageGenerator._draw_room_names, lines 244-248: rooms.values() in order
RECURSIVE DrawEachRoomName(_, _, _)
DrawEachRoomName(drawn, rooms, color) ==
    IF rooms = <<>> THEN drawn
    ELSE DrawEachRoomName(
             Then(drawn, DrawRoomName(drawn.image, Head(rooms), RoomPoint(Head(rooms)), color)),
             Tail(rooms), color)

\* ImageGenerator._draw_room_names
_draw_room_names(md) ==
    IF md.rooms = None \/ md.image = None THEN Nothing(md)
    ELSE WithImage(md, DrawEachRoomName(Drawn(The(md.image), <<>>), The(md.rooms),
                                        get_color("color_room_names")))

\* ImageGenerator._draw_layer
_draw_layer(md, layer_name) ==
    IF md.image # None /\ layer_name \in DOMAIN The(md.image).additional_layers
    THEN LET image == The(md.image)
             layer == image.additional_layers[layer_name]
         IN  WithImage(md, Drawn(_draw_layer_with_alpha(image, layer),
                   << [ colors |-> <<>>,
                        op |-> [ path |-> "premade", scale |-> ScaleDen,
                                 use_transparency |-> TRUE, prims |-> <<>>,
                                 draw_function_calls |-> 0,
                                 layer_size |-> Some(<<layer.w, layer.h>>),
                                 resized |-> FALSE, composites |-> 1,
                                 target_size |-> <<image.data.w, image.data.h>>,
                                 painted |-> Some(layer) ] ] >>))
    ELSE Nothing(md)

\* image.data.rotate(rotation, BILINEAR, expand=True, fillcolor): Pillow turns
\* by rotation mod 360 and transposes for a multiple of 90 degrees
RotateExpand(buf, rotation) == Transpose(buf, (rotation % 360) \div 90)

\* A wrong _rotate: the rotation is taken off the dimensions once it is applied
_rotate_and_reset(image) ==
    [image EXCEPT !.data = RotateExpand(image.data, image.dimensions.rotation),
                  !.dimensions.rotation = 0]

\* ImageGenerator._rotate
_rotate(image) ==
    CASE image.dimensions.rotation = 90  -> [image EXCEPT !.data = Transpose(image.data, 1)]
      [] image.dimensions.rotation = 180 -> [image EXCEPT !.data = Transpose(image.data, 2)]
      [] image.dimensions.rotation = 270 -> [image EXCEPT !.data = Transpose(image.data, 3)]
      [] OTHER -> [image EXCEPT !.data = RotateExpand(image.data, image.dimensions.rotation)]

\* ImageGenerator._draw_texts, lines 268-278: one entry of the loop
DrawTextEntry(image, text_config) ==
    _draw_text(image, text_config.text,
               (text_config.x * image.data.w) \div 100,
               (text_config.y * image.data.h) \div 100,
               text_config.color, text_config.font, text_config.font_size)

\* A wrong match statement: every string is taken for the charger kind
Match_every_string(drawable, md) ==
    [ fn |-> Some("_draw_charger"),
      map_data |-> _draw_charger(md).map_data,
      calls |-> _draw_charger(md).calls ]

\* ImageGenerator.draw_map, lines 43-77: the match statement.  fn names the
\* renderer the matching case calls, None when no case matches.
Match(drawable, md) ==
    LET Case(fn, r) == [fn |-> Some(fn), map_data |-> r.map_data, calls |-> r.calls]
    IN  CASE drawable = "charger" -> Case("_draw_charger", _draw_charger(md))
          [] drawable = "vacuum_position" ->
               Case("_draw_vacuum_position", _draw_vacuum_position(md))
          [] drawable = "obstacles" -> Case("_draw_obstacles", _draw_obstacles(md))
          [] drawable = "ignored_obstacles" ->
               Case("_draw_ignored_obstacles", _draw_ignored_obstacles(md))
          [] drawable = "obstacles_with_photo" ->
               Case("_draw_obstacles_with_photo", _draw_obstacles_with_photo(md))
          [] drawable = "ignored_obstacles_with_photo" ->
               Case("_draw_ignored_obstacles_with_photo", _draw_ignored_obstacles_with_photo(md))
          [] drawable = "mop_path" -> Case("_draw_mop_path", _draw_mop_path(md))
          [] drawable = "path" -> Case("_draw_vacuum_path", _draw_vacuum_path(md))
          [] drawable = "goto_path" -> Case("_draw_goto_path", _draw_goto_path(md))
          [] drawable = "predicted_path" ->
               Case("_draw_predicted_path", _draw_predicted_path(md))
          [] drawable = "no_carpet_zones" ->
               Case("_draw_no_carpet_areas", _draw_no_carpet_areas(md))
          [] drawable = "no_go_zones" -> Case("_draw_no_go_areas", _draw_no_go_areas(md))
          [] drawable = "no_mopping_zones" ->
               Case("_draw_no_mopping_areas", _draw_no_mopping_areas(md))
          [] drawable = "virtual_walls" -> Case("_draw_walls", _draw_walls(md))
          [] drawable = "zones" -> Case("_draw_zones", _draw_zones(md))
          [] drawable = "cleaned_area" -> Case("_draw_layer", _draw_layer(md, drawable))
          [] drawable = "room_names" -> Case("_draw_room_names", _draw_room_names(md))
          [] OTHER -> [fn |-> None, map_data |-> md, calls |-> <<>>]

(***************************************************************************)
(* One draw_map call as a state machine.  pc is the position in draw_map:  *)
(* "idle" before the call, "dispatching" in the loop over the drawables,   *)
(* "rotating" before line 78, "annotating" in the loop of _draw_texts,     *)
(* "done" after the return.                                                *)
(***************************************************************************)

\* Longest drawables list that mixes kinds freely
MaxDrawables == 2

\* Longest texts list
MaxTexts == 2

\* Width and height of the map before scaling, in pixels
ImgWidth == 2

ImgHeight == 2

\* Sequences over S of length at most n
SeqsUpTo(S, n) == UNION {[1..k -> S] : k \in 0..n}

\* Drawable kinds given to the constructor: the 17 values, and a string that
\* is none of them
KindArgs == Drawable \cup {"future_kind"}

\* Kinds that longer drawables lists are built from
MixedKinds == {"charger", "vacuum_position", "path", "no_go_zones", "cleaned_area", "future_kind"}

\* drawables arguments of the constructor
DrawablesArgs == SeqsUpTo(KindArgs, 1) \cup SeqsUpTo(MixedKinds, MaxDrawables)

\* Text entries: one with the defaults, one with an alpha colour and a font
TextArgs ==
    { [ text |-> <<"a">>, x |-> 0, y |-> 0, color |-> <<0, 0, 0>>,
        font |-> None, font_size |-> None ],
      [ text |-> <<"b", "c">>, x |-> 50, y |-> 50, color |-> <<255, 0, 0, 128>>,
        font |-> Some("font.ttf"), font_size |-> Some(2) ] }

\* texts arguments of the constructor
TextsArgs == SeqsUpTo(TextArgs, MaxTexts)

\* colors and sizes arguments other than the defaults
CustomColors ==
    [ color_path |-> <<10, 20, 30, 40>>,
      color_charger |-> <<255, 0, 0>>,
      color_charger_outline |-> <<200, 0, 0>>,
      color_no_go_zones |-> <<0, 255, 0>>,
      color_robo |-> <<250, 250, 250, 200>>,
      color_room_names |-> <<1, 2, 3, 4>> ]

CustomSizes ==
    [ vacuum_radius |-> 8, path_width |-> 5, charger_radius |-> 1,
      obstacle_radius |-> 0, mop_path_width |-> 2 ]

\* The colours and sizes the generator is built with
StyleArgs ==
    { [colors |-> EmptyDict, sizes |-> EmptyDict],
      [colors |-> CustomColors, sizes |-> CustomSizes] }

\* ImageConfig values: scale 1, 1.5 and 2, and quarter turns, one of them
\* written as 450 degrees
ImageConfigArgs ==
    { [ scale |-> sr[1], rotate |-> sr[2],
        trim |-> [left |-> 0, right |-> 0, top |-> 0, bottom |-> 0] ] :
      sr \in {<<2, 0>>, <<2, 90>>, <<3, 270>>, <<4, 180>>, <<2, 450>>} }

\* The pixels of the parsed map: every pixel its own colour
InputPixels(w, h) == [w |-> w, h |-> h, px |-> [p \in Pixels(w, h) |-> <<p[1], p[2], 148, 255>>]]

\* The cleaned-area layer of a parser: one grey pixel, transparent elsewhere
CleanedAreaLayer(w, h) ==
    [ w |-> w, h |-> h,
      px |-> [p \in Pixels(w, h) |->
                 IF p = <<0, 0>> THEN <<127, 127, 127, 127>> ELSE <<0, 0, 0, 0>>] ]

\* The ImageData a parser builds for a map of ImgWidth x ImgHeight pixels
ParsedImage(config, with_layers) ==
    LET w == Scaled(ImgWidth, config.scale)
        h == Scaled(ImgHeight, config.scale)
    IN  ImageData(ImgWidth * ImgHeight, 0, 0, ImgHeight, ImgWidth, config, InputPixels(w, h),
                  "identity",
                  IF with_layers
                  THEN Some([cleaned_area |-> Some(CleanedAreaLayer(w, h)), carpet |-> None])
                  ELSE None)

Area(xa, ya, xb, yb, xc, yc, xd, yd) ==
    [x0 |-> xa, y0 |-> ya, x1 |-> xb, y1 |-> yb, x2 |-> xc, y2 |-> yc, x3 |-> xd, y3 |-> yd]

Path(path) == [point_length |-> None, point_size |-> None, angle |-> None, path |-> path]

Room(number, name, pos_x, pos_y) ==
    [ x0 |-> 0, y0 |-> 0, x1 |-> 1, y1 |-> 1,
      number |-> number, name |-> name, pos_x |-> pos_x, pos_y |-> pos_y ]

\* MapData.__init__: every field None
EmptyMapData ==
    [ charger |-> None, vacuum_position |-> None,
      obstacles |-> None, ignored_obstacles |-> None,
      obstacles_with_photo |-> None, ignored_obstacles_with_photo |-> None,
      path |-> None, goto_path |-> None, predicted_path |-> None, mop_path |-> None,
      no_carpet_areas |-> None, no_go_areas |-> None, no_mopping_areas |-> None,
      walls |-> None, zones |-> None, rooms |-> None, image |-> None ]

\* A map whose lists are all there and hold nothing
BareMapData ==
    [ EmptyMapData EXCEPT
        !.obstacles = Some(<<>>), !.ignored_obstacles = Some(<<>>),
        !.obstacles_with_photo = Some(<<>>), !.ignored_obstacles_with_photo = Some(<<>>),
        !.path = Some(Path(<<>>)), !.goto_path = Some(Path(<< <<>> >>)),
        !.predicted_path = Some(Path(<<>>)),
        !.mop_path = Some(Path(<<>>)),
        !.no_carpet_areas = Some(<<>>), !.no_go_areas = Some(<<>>),
        !.no_mopping_areas = Some(<<>>),
        !.walls = Some(<<>>), !.zones = Some(<<>>), !.rooms = Some(<<>>) ]

\* A map with every element; heading is the angle of the charger and the vacuum
FullMapData(heading) ==
    [ EmptyMapData EXCEPT
        !.charger = Some(Point(1, 1, heading)),
        !.vacuum_position = Some(Point(0, 0, heading)),
        !.obstacles = Some(<<Point(0, 1, None), Point(1, 0, None)>>),
        !.ignored_obstacles = Some(<<Point(1, 1, None)>>),
        !.obstacles_with_photo = Some(<<Point(0, 0, None)>>),
        !.ignored_obstacles_with_photo = Some(<<Point(1, 0, None)>>),
        !.path = Some(Path(<< <<Point(0, 0, None), Point(1, 0, None), Point(1, 1, None)>>,
                              <<Point(0, 1, None)>> >>)),
        !.goto_path = Some(Path(<< <<Point(0, 0, None), Point(0, 1, None)>> >>)),
        !.predicted_path = Some(Path(<< <<Point(1, 0, None), Point(1, 1, None)>> >>)),
        !.mop_path = Some(Path(<< <<Point(0, 1, None), Point(1, 1, None)>> >>)),
        !.no_carpet_areas = Some(<<Area(0, 0, 0, 1, 1, 1, 1, 0)>>),
        !.no_go_areas = Some(<<Area(1, 0, 1, 1, 1, 1, 1, 0), Area(0, 0, 0, 0, 1, 0, 1, 0)>>),
        !.no_mopping_areas = Some(<<Area(0, 1, 0, 1, 0, 1, 0, 1)>>),
        !.walls = Some(<<[x0 |-> 0, y0 |-> 0, x1 |-> 1, y1 |-> 0]>>),
        !.zones = Some(<<[x0 |-> 0, y0 |-> 0, x1 |-> 1, y1 |-> 0]>>),
        !.rooms = Some(<< Room(1, Some(<<"k">>), Some(0), Some(0)),
                          Room(2, None, Some(1), Some(1)),
                          Room(3, Some(<<"h", "a">>), None, Some(1)) >>) ]

\* The maps given to draw_map, before the image is attached
MapDataArgs ==
    { [with_layers |-> FALSE, md |-> EmptyMapData],
      [with_layers |-> FALSE, md |-> BareMapData],
      [with_layers |-> TRUE, md |-> FullMapData(None)],
      [with_layers |-> TRUE, md |-> FullMapData(Some(90))] }

\* No palette call has been made
NoCall == [op |-> "none"]

\* No second draw_map call is made
NoRender == [pc |-> "none"]

\* MapData.__init__, for calibration(): the fields it reads
MapData(calibration_center, calibration_diff) ==
    [ calibration_center |-> calibration_center,
      calibration_diff |-> calibration_diff,
      image |-> None ]

\* ImageGenerator.__init__, and the MapData of the call
RenderInit ==
    /\ \E style \in StyleArgs :
          /\ overriden_colors = style.colors
          /\ overriden_sizes = style.sizes
    /\ drawables \in DrawablesArgs
    /\ texts \in TextsArgs
    /\ image_config \in ImageConfigArgs
    /\ \E arg \in MapDataArgs :
          \/ map_data = arg.md
          \/ map_data = [arg.md EXCEPT !.image = Some(ParsedImage(image_config, arg.with_layers))]
    /\ entry = map_data
    /\ pc = "idle"
    /\ idx = 1
    /\ trace = <<>>
    /\ calls = <<>>
    /\ font_trace = <<>>
    /\ other = NoRender

\* The compositor calls of one loop entry, as they are logged
Logged(made, phase, k) ==
    [n \in 1..Len(made) |->
        [phase |-> phase, entry |-> k, colors |-> made[n].colors, op |-> made[n].op]]

\* A wrong draw_map: no check that the map has an image
DrawMapEnter_without_check ==
    /\ pc = "idle"
    /\ pc' = IF drawables = <<>> THEN "rotating" ELSE "dispatching"
    /\ UNCHANGED <<overriden_sizes, drawables, texts, image_config, map_data, idx, trace,
                   calls, entry, font_trace, other>>
    /\ UNCHANGED paletteVars
    /\ UNCHANGED geometryVars

\* draw_map, lines 40-42: the call returns at once without an image
DrawMapEnter ==
    /\ pc = "idle"
    /\ pc' = IF map_data.image = None THEN "done"
             ELSE IF drawables = <<>> THEN "rotating" ELSE "dispatching"
    /\ UNCHANGED <<overriden_sizes, drawables, texts, image_config, map_data, idx, trace,
                   calls, entry, font_trace, other>>
    /\ UNCHANGED paletteVars
    /\ UNCHANGED geometryVars

\* draw_map, lines 42-77: one entry of the drawables list
Dispatch ==
    /\ pc = "dispatching"
    /\ \E r \in {Match(drawables[idx], map_data)} :
           /\ map_data' = r.map_data
           /\ trace' = trace \o (IF r.fn # None
                                 THEN <<[ev |-> "render", fn |-> The(r.fn), entry |-> idx]>>
                                 ELSE <<>>)
           /\ calls' = calls \o Logged(r.calls, "element", idx)
    /\ idx' = IF idx < Len(drawables) THEN idx + 1 ELSE 1
    /\ pc' = IF idx < Len(drawables) THEN "dispatching" ELSE "rotating"
    /\ UNCHANGED <<overriden_sizes, drawables, texts, image_config, entry, font_trace,
                   other>>
    /\ UNCHANGED paletteVars
    /\ UNCHANGED geometryVars

\* draw_map, line 78
Rotate ==
    /\ pc = "rotating"
    /\ map_data.image # None
    /\ map_data' = [map_data EXCEPT !.image = Some(_rotate(The(map_data.image)))]
    /\ trace' = Append(trace, [ev |-> "rotate", fn |-> "_rotate", entry |-> 0])
    /\ pc' = IF texts = <<>> THEN "done" ELSE "annotating"
    /\ UNCHANGED <<overriden_sizes, drawables, texts, image_config, idx, calls, entry,
                   font_trace, other>>
    /\ UNCHANGED paletteVars
    /\ UNCHANGED geometryVars

\* draw_map, line 79: one entry of the loop of _draw_texts
DrawText ==
    /\ pc = "annotating"
    /\ map_data.image # None
    /\ \E d \in {DrawTextEntry(The(map_data.image), texts[idx])} :
           /\ map_data' = [map_data EXCEPT !.image = Some(d.image)]
           /\ calls' = calls \o Logged(d.calls, "text", idx)
    /\ trace' = Append(trace, [ev |-> "text", fn |-> "_draw_text", entry |-> idx])
    /\ font_trace' = font_trace \o FontEvents(idx, texts[idx].font, texts[idx].font_size)
    /\ idx' = IF idx < Len(texts) THEN idx + 1 ELSE 1
    /\ pc' = IF idx < Len(texts) THEN "annotating" ELSE "done"
    /\ UNCHANGED <<overriden_sizes, drawables, texts, image_config, entry, other>>
    /\ UNCHANGED paletteVars
    /\ UNCHANGED geometryVars

Init ==
    /\ RenderInit
    /\ overriden_room_colors = EmptyDict
    /\ random_draws = 0
    /\ call = NoCall
    /\ subject = MapData(0, 0)
    /\ answer = NoCall

Next ==
    \/ DrawMapEnter
    \/ Dispatch
    \/ Rotate
    \/ DrawText

Spec == Init /\ [][Next]_vars

(***************************************************************************)
(* map_data.py: the geometry of a map.  A position on the image is a whole *)
(* number of 1/ScaleDen of a pixel, so that a scale of 1.5 and the centre  *)
(* w / 2 of an image are exact; a position on the map is a whole number of *)
(* map units.                                                              *)
(***************************************************************************)

\* int(n / d): the fraction is cut off towards zero
IntDiv(n, d) == IF n >= 0 THEN n \div d ELSE -((-n) \div d)

Abs(v) == IF v >= 0 THEN v ELSE -v

\* ImageDimensions.to_img, lines 100-103, on the transformed point p
PlaceOnImage(dims, p) ==
    Point((p.x - dims.left) * dims.scale,
          (dims.height - (p.y - dims.top) - 1) * dims.scale,
          None)

\* A wrong ImageDimensions.to_img: the y axis is not flipped
ImageDimensions_to_img_without_flip(dims, point) ==
    Point((ApplyTransformation(dims.img_transformation, point).x - dims.left) * dims.scale,
          (ApplyTransformation(dims.img_transformation, point).y - dims.top) * dims.scale,
          None)

\* ImageDimensions.to_img (and Point.to_img, which calls it)
ImageDimensions_to_img(dims, point) ==
    PlaceOnImage(dims, ApplyTransformation(dims.img_transformation, point))

\* int(side * scale), lines 38-39, in 1/ScaleDen of a pixel
ScaledSide(side, scale) == IntDiv(side * scale, ScaleDen) * ScaleDen

\* A wrong fast path: a quarter turn the other way round
RECURSIVE QuarterTurns_clockwise(_, _, _, _, _)
QuarterTurns_clockwise(alpha, x, y, w, h) ==
    IF alpha > 0
    THEN QuarterTurns_clockwise(alpha - 90, h - y, x, h, w)
    ELSE Point(x, y, None)

\* Point.rotated, lines 43-47: the loop of quarter turns
RECURSIVE QuarterTurns(_, _, _, _, _)
QuarterTurns(alpha, x, y, w, h) ==
    IF alpha > 0
    THEN QuarterTurns(alpha - 90, y, w - x, h, w)
    ELSE Point(x, y, None)

\* Point.rotated, lines 48-55: the turn about the centre of the image, with
\* cos and sin in thousandths; w and h are even, so w / 2 is whole
RotatedGeneral(alpha, x, y, w, h) ==
    LET cos == Cos1000(alpha)
        sin == Sin1000(alpha)
        xm  == w \div 2
        ym  == h \div 2
        wr  == Abs(w * cos) + Abs(h * sin)
        hr  == Abs(w * sin) + Abs(h * cos)
    IN  Point(((x - xm) * cos + (y - ym) * sin + (wr \div 2)) \div 1000,
              ((xm - x) * sin + (y - ym) * cos + (hr \div 2)) \div 1000,
              None)

\* Point.rotated
rotated(point, dims) ==
    IF dims.rotation % 90 = 0
    THEN QuarterTurns(dims.rotation, point.x, point.y,
                      ScaledSide(dims.width, dims.scale), ScaledSide(dims.height, dims.scale))
    ELSE RotatedGeneral(dims.rotation, point.x, point.y,
                        ScaledSide(dims.width, dims.scale), ScaledSide(dims.height, dims.scale))

\* MapData.calibration, lines 302-307: one entry of the list
CalibrationEntry(point, img_point) ==
    [ vacuum |-> [x |-> point.x, y |-> point.y],
      map |-> [x |-> img_point.x, y |-> img_point.y] ]

\* MapData.calibration, lines 299-301
CalibrationPoint(point, dims) ==
    CalibrationEntry(point, rotated(ImageDimensions_to_img(dims, point), dims))

\* A wrong MapData.calibration: the offset is diff and not 10 * diff
CalibrationPoints_diff_once(center, diff, dims) ==
    << CalibrationPoint(Point(center, center, None), dims),
       CalibrationPoint(Point(center + diff, center, None), dims),
       CalibrationPoint(Point(center, center + diff, None), dims) >>

\* MapData.calibration, lines 287-308
CalibrationPoints(center, diff, dims) ==
    << CalibrationPoint(Point(center, center, None), dims),
       CalibrationPoint(Point(center + diff * 10, center, None), dims),
       CalibrationPoint(Point(center, center + diff * 10, None), dims) >>

\* A wrong MapData.calibration: an empty image is calibrated too
calibration_of_empty(md) ==
    IF md.image = None
    THEN None
    ELSE Some(CalibrationPoints(md.calibration_center, md.calibration_diff,
                                The(md.image).dimensions))

\* MapData.calibration
calibration(md) ==
    IF md.image = None \/ The(md.image).is_empty
    THEN None
    ELSE Some(CalibrationPoints(md.calibration_center, md.calibration_diff,
                                The(md.image).dimensions))

\* ImageConfig(): scale 1, no rotation, no trim
DefaultImageConfig ==
    [ scale |-> ScaleDen, rotate |-> 0,
      trim |-> [left |-> 0, right |-> 0, top |-> 0, bottom |-> 0] ]

\* ImageData.create_empty
ImageData_create_empty(data) ==
    ImageData(0, 0, 0, 0, 0, DefaultImageConfig, data, "identity", None)

\* A wrong caption colour: the alpha channel is summed too
CaptionColor_with_alpha(color) ==
    IF color[1] + color[2] + color[3] + (IF Len(color) = 4 THEN color[4] ELSE 0) > 382
    THEN <<0, 0, 0>>
    ELSE <<255, 255, 255>>

\* create_empty_map_image, lines 84-87
CaptionColor(color) ==
    IF color[1] + color[2] + color[3] > 382 THEN <<0, 0, 0>> ELSE <<255, 255, 255>>

\* create_empty_map_image, lines 83-94, on the resolved colour: the image is
\* held as its size, the pixel it is filled with and the caption drawn on it
\* in the default font, centred
Placeholder(color, text) ==
    [ w |-> 300, h |-> 200,
      background |-> Ink(color),
      caption |-> [ text |-> text,
                    fill |-> CaptionColor(color),
                    x |-> (300 - Len(text) * DefaultGlyph) \div 2,
                    y |-> (200 - DefaultGlyph) \div 2 ] ]

\* ImageGenerator.create_empty_map_image
create_empty_map_image(text) == Placeholder(get_color("color_map_outside"), text)

\* MapDataParser.create_empty
create_empty(text) ==
    [ MapData(0, 0) EXCEPT
        !.image = Some(ImageData_create_empty(create_empty_map_image(text))) ]

(***************************************************************************)
(* The geometry as a state machine: a parser builds the MapData and its    *)
(* image, or the placeholder, and a client asks for positions on it.       *)
(***************************************************************************)

\* Largest side of a parsed image, in pixels
MaxSide == 3

\* Largest coordinate of a point asked for
MaxCoord == 1

\* calibration_center and calibration_diff of the parsers
CalibrationArgs == {<<0, 1>>, <<1, 2>>}

\* Sides of the parsed image: none, and two that differ
SideArgs == {0} \cup (MaxSide - 1)..MaxSide

\* top and left of the parsed image
OffsetArgs == {<<0, 0>>, <<1, 2>>}

\* Trim percentages: none, the whole height, and half the width
TrimArgs ==
    { [left |-> 0, right |-> 0, top |-> 0, bottom |-> 0],
      [left |-> 0, right |-> 0, top |-> 50, bottom |-> 50],
      [left |-> 50, right |-> 0, top |-> 0, bottom |-> 50] }

\* Scales 1, 1.5 and 2
ScaleArgs == {ScaleDen, ScaleDen + 1, 2 * ScaleDen}

\* Rotations: the quarter turns, a turn that is none, and angles the loop of
\* quarter turns counts down from or never enters
RotateArgs == {0, 90, 180, 270, 14, 450, -90}

\* Points asked for
PointArgs == {Point(x, y, None) : x \in -1..MaxCoord, y \in -1..MaxCoord}

\* Captions of the placeholder
CaptionArgs == {<<"N", "O", " ", "M", "A", "P">>, <<"?">>, <<>>}

\* No generator is at work
RenderIdle ==
    /\ overriden_sizes = EmptyDict
    /\ drawables = <<>>
    /\ texts = <<>>
    /\ image_config = DefaultImageConfig
    /\ map_data = EmptyMapData
    /\ entry = map_data
    /\ pc = "idle"
    /\ idx = 1
    /\ trace = <<>>
    /\ calls = <<>>
    /\ font_trace = <<>>
    /\ other = NoRender

\* A parser sets MapData.image: ImageData.__init__ on what it parsed
AttachImage ==
    /\ subject.image = None
    /\ \E offset \in OffsetArgs, height \in SideArgs, width \in SideArgs,
          scale \in ScaleArgs, rotate \in RotateArgs, trim \in TrimArgs,
          transformation \in {"identity", "swap_xy"} :
          \E made \in { ImageData(height * width, offset[1], offset[2], height, width,
                                  [scale |-> scale, rotate |-> rotate, trim |-> trim],
                                  InputPixels(0, 0), transformation, None) } :
             /\ subject' = [subject EXCEPT !.image = Some(made)]
             /\ answer' = [ op |-> "ImageData", height |-> height, width |-> width,
                            trim |-> trim, before |-> subject, result |-> made ]
    /\ UNCHANGED paletteVars
    /\ UNCHANGED renderVars

\* One call of Point.to_img
ToImg(point) ==
    /\ subject.image # None
    /\ answer' = [ op |-> "to_img", point |-> point, before |-> subject,
                   result |-> ImageDimensions_to_img(The(subject.image).dimensions, point) ]
    /\ UNCHANGED subject
    /\ UNCHANGED paletteVars
    /\ UNCHANGED renderVars

\* One call of Point.rotated
RotatedPoint(point) ==
    /\ subject.image # None
    /\ answer' = [ op |-> "rotated", point |-> point, before |-> subject,
                   result |-> rotated(point, The(subject.image).dimensions) ]
    /\ UNCHANGED subject
    /\ UNCHANGED paletteVars
    /\ UNCHANGED renderVars

\* One call of MapData.calibration
Calibration ==
    /\ answer' = [ op |-> "calibration", before |-> subject, result |-> calibration(subject) ]
    /\ UNCHANGED subject
    /\ UNCHANGED paletteVars
    /\ UNCHANGED renderVars

\* One call of MapDataParser.create_empty: the parser returns a new MapData
CreateEmpty(text) ==
    /\ subject' = create_empty(text)
    /\ answer' = [ op |-> "create_empty", text |-> text, before |-> subject,
                   colors |-> overriden_colors ]
    /\ UNCHANGED paletteVars
    /\ UNCHANGED renderVars

\* One call of ImageGenerator.create_empty_map_image
CreateEmptyMapImage(text) ==
    /\ answer' = [ op |-> "create_empty_map_image", text |-> text, before |-> subject,
                   colors |-> overriden_colors, result |-> create_empty_map_image(text) ]
    /\ UNCHANGED subject
    /\ UNCHANGED paletteVars
    /\ UNCHANGED renderVars

\* A parser with the default palette
InitGeometry ==
    /\ \E arg \in CalibrationArgs : subject = MapData(arg[1], arg[2])
    /\ answer = NoCall
    /\ overriden_colors = EmptyDict
    /\ overriden_room_colors = EmptyDict
    /\ random_draws = 0
    /\ call = NoCall
    /\ RenderIdle

NextGeometry ==
    \/ AttachImage
    \/ \E point \in PointArgs : ToImg(point)
    \/ \E point \in PointArgs : RotatedPoint(point)
    \/ Calibration
    \/ \E text \in CaptionArgs : CreateEmpty(text)

SpecGeometry == InitGeometry /\ [][NextGeometry]_vars

\* colors arguments of the generator that makes the placeholder: the default,
\* backgrounds on either side of the threshold, with and without alpha, and
\* one that leaves the background alone
PlaceholderColors ==
    { EmptyDict,
      [color_map_outside |-> <<127, 127, 128>>],
      [color_map_outside |-> <<127, 128, 128>>],
      [color_map_outside |-> <<100, 100, 100, 255>>],
      [color_map_outside |-> <<255, 255, 255, 0>>],
      [color_map_outside |-> <<0, 0, 0>>],
      [color_path |-> <<255, 255, 255>>] }

\* A parser whose generator has one of these palettes
InitPlaceholder ==
    /\ \E arg \in CalibrationArgs : subject = MapData(arg[1], arg[2])
    /\ answer = NoCall
    /\ overriden_colors \in PlaceholderColors
    /\ overriden_room_colors = EmptyDict
    /\ random_draws = 0
    /\ call = NoCall
    /\ RenderIdle

NextPlaceholder ==
    \/ \E text \in CaptionArgs : CreateEmptyMapImage(text)
    \/ \E text \in CaptionArgs : CreateEmpty(text)
    \/ Calibration

SpecPlaceholder == InitPlaceholder /\ [][NextPlaceholder]_vars

(***************************************************************************)
(* draw_map on maps that hold paths only, in every width and scale         *)
(***************************************************************************)

\* Largest configured path width
MaxPathWidth == 5

\* The kinds that _draw_path renders
PathKinds == {"path", "goto_path", "predicted_path", "mop_path"}

\* path.path values: no polyline, polylines of no and of one point, one segment,
\* and three polylines of three, one and two points
PolylinesArgs ==
    { <<>>,
      << <<>>, <<Point(0, 0, None)>> >>,
      << <<Point(0, 0, None), Point(1, 0, None)>> >>,
      << <<Point(0, 0, None), Point(1, 0, None), Point(1, 1, None)>>,
         <<Point(0, 1, None)>>,
         <<Point(1, 1, None), Point(0, 0, None)>> >> }

\* A map whose four paths hold these polylines
PathsMapData(polylines) ==
    [ EmptyMapData EXCEPT
        !.path = Some(Path(polylines)), !.goto_path = Some(Path(polylines)),
        !.predicted_path = Some(Path(polylines)), !.mop_path = Some(Path(polylines)) ]

\* ImageGenerator.__init__ with paths to draw, and the MapData of the call
InitPaths ==
    /\ overriden_colors \in {EmptyDict, [color_path |-> <<10, 20, 30, 40>>]}
    /\ overriden_sizes \in
          {EmptyDict} \cup {[path_width |-> w, mop_path_width |-> w] : w \in 1..MaxPathWidth}
    /\ drawables \in {<<kind>> : kind \in PathKinds} \cup {<<"path", "mop_path">>}
    /\ texts \in SeqsUpTo(TextArgs, 1)
    /\ \E scale \in ScaleArgs, rotate \in {0, 90} :
          image_config = [DefaultImageConfig EXCEPT !.scale = scale, !.rotate = rotate]
    /\ \E polylines \in PolylinesArgs :
          map_data = [PathsMapData(polylines) EXCEPT
                         !.image = Some(ParsedImage(image_config, FALSE))]
    /\ entry = map_data
    /\ pc = "idle"
    /\ idx = 1
    /\ trace = <<>>
    /\ calls = <<>>
    /\ font_trace = <<>>
    /\ other = NoRender
    /\ overriden_room_colors = EmptyDict
    /\ random_draws = 0
    /\ call = NoCall
    /\ subject = MapData(0, 0)
    /\ answer = NoCall

SpecPaths == InitPaths /\ [][Next]_vars

(***************************************************************************)
(* draw_map with texts in fonts that can and cannot be loaded              *)
(***************************************************************************)

\* Text entries: no font file, one that loads, one that is missing and one
\* Pillow cannot open, each without a size and with a size of 0, -1 and 2
FontTextArgs ==
    { [ text |-> <<"a">>, x |-> 50, y |-> 50,
        color |-> IF font = None THEN <<255, 0, 0, 128>> ELSE <<0, 0, 0>>,
        font |-> font, font_size |-> font_size ] :
      font \in {None, Some("font.ttf"), Some("missing.ttf"), Some("font.otf")},
      font_size \in {None, Some(0), Some(-1), Some(2)} }

\* ImageGenerator.__init__ with these texts, and the MapData of the call
InitTexts ==
    /\ overriden_colors = EmptyDict
    /\ overriden_sizes = EmptyDict
    /\ drawables \in {<<>>, <<"room_names">>}
    /\ texts \in SeqsUpTo(FontTextArgs, MaxTexts)
    /\ image_config = DefaultImageConfig
    /\ map_data = [FullMapData(None) EXCEPT !.image = Some(ParsedImage(image_config, FALSE))]
    /\ entry = map_data
    /\ pc = "idle"
    /\ idx = 1
    /\ trace = <<>>
    /\ calls = <<>>
    /\ font_trace = <<>>
    /\ other = NoRender
    /\ overriden_room_colors = EmptyDict
    /\ random_draws = 0
    /\ call = NoCall
    /\ subject = MapData(0, 0)
    /\ answer = NoCall

SpecTexts == InitTexts /\ [][Next]_vars

(***************************************************************************)
(* draw_map called again and again on the same MapData                     *)
(***************************************************************************)

\* Number of draw_map calls on one MapData
MaxCalls == 4

\* The draw_map calls that have returned
Returns == SelectSeq(trace, LAMBDA e : e.ev = "return")

\* The ImageData a parser builds for a map that is wider than it is high
WideImage(config) ==
    ImageData((ImgWidth + 1) * ImgHeight, 0, 0, ImgHeight, ImgWidth + 1, config,
              InputPixels(Scaled(ImgWidth + 1, config.scale), Scaled(ImgHeight, config.scale)),
              "identity", None)

\* ImageGenerator.__init__, and the MapData given to every call
InitRepeat ==
    /\ overriden_colors = EmptyDict
    /\ overriden_sizes = EmptyDict
    /\ drawables \in {<<>>, <<"charger">>}
    /\ texts \in SeqsUpTo(TextArgs, 1)
    /\ \E rotate \in {0, 90, 180, 270, 450} :
          image_config = [DefaultImageConfig EXCEPT !.rotate = rotate]
    /\ map_data = [FullMapData(None) EXCEPT !.image = Some(WideImage(image_config))]
    /\ entry = map_data
    /\ pc = "idle"
    /\ idx = 1
    /\ trace = <<>>
    /\ calls = <<>>
    /\ font_trace = <<>>
    /\ other = NoRender
    /\ overriden_room_colors = EmptyDict
    /\ random_draws = 0
    /\ call = NoCall
    /\ subject = MapData(0, 0)
    /\ answer = NoCall

\* draw_map returns, and the caller gives the same MapData to the next call
DrawMapReturn ==
    /\ pc = "done"
    /\ Len(Returns) < MaxCalls - 1
    /\ pc' = "idle"
    /\ trace' = Append(trace, [ev |-> "return", fn |-> "draw_map", entry |-> 0,
                               result |-> map_data.image])
    /\ UNCHANGED <<overriden_sizes, drawables, texts, image_config, map_data, idx, calls,
                   entry, font_trace, other>>
    /\ UNCHANGED paletteVars
    /\ UNCHANGED geometryVars

NextRepeat ==
    \/ Next
    \/ DrawMapReturn

SpecRepeat == InitRepeat /\ [][NextRepeat]_vars

(***************************************************************************)
(* Two draw_map calls of one generator at the same time, each on a MapData *)
(* of its own.  A call reads self._drawables, self._texts, the palette and *)
(* the sizes, and assigns to fields of its own MapData only.               *)
(***************************************************************************)

\* A draw_map call: its MapData, where it stands, and the MapData it was given
RenderCall(md) == [map_data |-> md, pc |-> "idle", idx |-> 1, entry |-> md]

\* draw_map, lines 40-42
AfterEnter(r) ==
    [r EXCEPT !.pc = IF r.map_data.image = None THEN "done"
                     ELSE IF drawables = <<>> THEN "rotating" ELSE "dispatching"]

\* draw_map, lines 42-77: one entry of the drawables list, m what it did
AfterDispatch(r, m) ==
    [r EXCEPT !.map_data = m.map_data,
              !.idx = IF r.idx < Len(drawables) THEN r.idx + 1 ELSE 1,
              !.pc = IF r.idx < Len(drawables) THEN "dispatching" ELSE "rotating"]

\* draw_map, line 78
AfterRotate(r) ==
    [r EXCEPT !.map_data.image = Some(_rotate(The(r.map_data.image))),
              !.pc = IF texts = <<>> THEN "done" ELSE "annotating"]

\* draw_map, line 79: one entry of the loop of _draw_texts, d what it did
AfterText(r, d) ==
    [r EXCEPT !.map_data.image = Some(d.image),
              !.idx = IF r.idx < Len(texts) THEN r.idx + 1 ELSE 1,
              !.pc = IF r.idx < Len(texts) THEN "annotating" ELSE "done"]

\* One step of a draw_map call
StepOfCall(r) ==
    CASE r.pc = "idle" -> AfterEnter(r)
      [] r.pc = "dispatching" -> AfterDispatch(r, Match(drawables[r.idx], r.map_data))
      [] r.pc = "rotating" -> AfterRotate(r)
      [] r.pc = "annotating" ->
            AfterText(r, DrawTextEntry(The(r.map_data.image), texts[r.idx]))

\* A wrong second call: it draws on the image of the first call as well
OtherStep_on_shared_image ==
    /\ other.pc \notin {"none", "done"}
    /\ other' = StepOfCall(other)
    /\ map_data' = [map_data EXCEPT !.image = StepOfCall(other).map_data.image]
    /\ UNCHANGED <<overriden_sizes, drawables, texts, image_config, pc, idx, trace,
                   calls, entry, font_trace>>
    /\ UNCHANGED paletteVars
    /\ UNCHANGED geometryVars

\* One step of the second draw_map call
OtherStep ==
    /\ other.pc \notin {"none", "done"}
    /\ other' = StepOfCall(other)
    /\ UNCHANGED <<overriden_sizes, drawables, texts, image_config, map_data, pc, idx, trace,
                   calls, entry, font_trace>>
    /\ UNCHANGED paletteVars
    /\ UNCHANGED geometryVars

\* The maps given to the second call: one without an image, and one whose
\* charger and vacuum have a heading
OtherMapArgs ==
    { EmptyMapData,
      [FullMapData(Some(90)) EXCEPT !.image = Some(ParsedImage(image_config, TRUE))] }

\* ImageGenerator.__init__, and the MapData of either call
InitConcurrent ==
    /\ \E style \in StyleArgs :
          /\ overriden_colors = style.colors
          /\ overriden_sizes = style.sizes
    /\ drawables \in {<<"charger">>, <<"path", "vacuum_position">>, <<"cleaned_area">>}
    /\ texts \in SeqsUpTo(TextArgs, 1)
    /\ \E rotate \in {0, 90} :
          image_config = [DefaultImageConfig EXCEPT !.rotate = rotate]
    /\ map_data = [FullMapData(None) EXCEPT !.image = Some(ParsedImage(image_config, FALSE))]
    /\ entry = map_data
    /\ pc = "idle"
    /\ idx = 1
    /\ trace = <<>>
    /\ calls = <<>>
    /\ font_trace = <<>>
    /\ \E md \in OtherMapArgs : other = RenderCall(md)
    /\ overriden_room_colors = EmptyDict
    /\ random_draws = 0
    /\ call = NoCall
    /\ subject = MapData(0, 0)
    /\ answer = NoCall

NextConcurrent ==
    \/ Next
    \/ OtherStep

SpecConcurrent == InitConcurrent /\ [][NextConcurrent]_vars

(***************************************************************************)
(* The palette as a state machine: construction, then any sequence of      *)
(* get_color and get_room_color calls.                                     *)
(***************************************************************************)

\* Largest room id passed to get_room_color
MaxRoomId == 33

\* Number of get_room_color calls in one behaviour
MaxDraws == 3

\* Names asked of get_color: every role, and one name that is no role
ColorNames == SupportedColor \cup {"color_future"}

\* colors_dict arguments of the constructor other than None
ColorsDictArgs ==
    { [color_path |-> <<10, 20, 30, 40>>, color_unknown |-> <<1, 1, 1>>],
      [color_mop_path |-> <<200, 100, 50>>, color_future |-> <<9, 9, 9>>] }

\* room_colors arguments of the constructor other than None ("0" and "01" are keys too)
RoomColorsArgs ==
    { (<<"1">> :> <<11, 12, 13>>) @@ (<<"1", "6">> :> <<21, 22, 23, 24>>),
      (<<"0">> :> <<31, 32, 33>>) @@ (<<"0", "1">> :> <<41, 42, 43>>) }

\* Room ids given as int
IntRoomIds == {[type |-> "int", v |-> n] : n \in -1..MaxRoomId}

\* Room ids given as str: str(n) for ids at the edges of the table, and two with
\* a leading zero
StrRoomIds ==
    {[type |-> "str", v |-> IntToStr(n)] : n \in {-1, 0, 1, 16, 17, MaxRoomId - 1, MaxRoomId}}
        \cup {[type |-> "str", v |-> <<"0">> \o IntToStr(n)] : n \in {1, 17}}

\* ColorsPalette.__init__
PaletteInit ==
    /\ \/ overriden_colors = EmptyDict                \* colors_dict is None
       \/ \E colors_dict \in ColorsDictArgs : overriden_colors = colors_dict
    /\ \/ overriden_room_colors = EmptyDict           \* room_colors is None
       \/ \E room_colors \in RoomColorsArgs : overriden_room_colors = room_colors
    /\ random_draws = 0
    /\ call = NoCall

\* One call of ColorsPalette.get_color
GetColor(color_name) ==
    /\ call' = [ op |-> "get_color", arg |-> color_name,
                 overrides |-> overriden_colors,
                 draws_before |-> random_draws,
                 result |-> get_color(color_name) ]
    /\ UNCHANGED <<overriden_colors, overriden_room_colors, random_draws>>
    /\ UNCHANGED renderVars
    /\ UNCHANGED geometryVars

\* One call of ColorsPalette.get_room_color.  Python evaluates the arguments
\* of dict.get before the call, so self._random.randint(1, 16) on line 141
\* is evaluated in every call, found key or not.
GetRoomColor(room_id) ==
    /\ random_draws < MaxDraws
    /\ \E drawn \in 1..16 :
          call' = [ op |-> "get_room_color", arg |-> room_id,
                    id |-> AsInt(room_id), key |-> RoomKey(room_id),
                    overrides |-> overriden_room_colors,
                    draws_before |-> random_draws,
                    result |-> RoomLookup(RoomKey(room_id), drawn) ]
    /\ random_draws' = random_draws + 1
    /\ UNCHANGED <<overriden_colors, overriden_room_colors>>
    /\ UNCHANGED renderVars
    /\ UNCHANGED geometryVars

\* The palette alone: no generator is built and no map is drawn
InitPalette ==
    /\ PaletteInit
    /\ overriden_sizes = EmptyDict
    /\ drawables = <<>>
    /\ texts = <<>>
    /\ image_config = [ scale |-> ScaleDen, rotate |-> 0,
                        trim |-> [left |-> 0, right |-> 0, top |-> 0, bottom |-> 0] ]
    /\ map_data = EmptyMapData
    /\ entry = map_data
    /\ pc = "idle"
    /\ idx = 1
    /\ trace = <<>>
    /\ calls = <<>>
    /\ font_trace = <<>>
    /\ other = NoRender
    /\ subject = MapData(0, 0)
    /\ answer = NoCall

NextPalette ==
    \/ \E color_name \in ColorNames : GetColor(color_name)
    \/ \E room_id \in IntRoomIds : GetRoomColor(room_id)
    \/ \E room_id \in StrRoomIds : GetRoomColor(room_id)

SpecPalette == InitPalette /\ [][NextPalette]_vars

(***************************************************************************)
(* Properties of the palette                                               *)
(***************************************************************************)

\* ((id - 1) mod 16) + 1 as a key
WrappedKey(id) == IntToStr(((id - 1) % 16) + 1)

\* C7: get_color returns the override for the name when there is one, otherwise
\* the built-in entry for the name, otherwise the built-in entry of UNKNOWN,
\* otherwise black; it always returns a colour, and it changes neither the
\* override mapping nor the random source, so the result depends on the name
\* and the mapping alone.
C7_GetColorChain ==
    call.op = "get_color" =>
        /\ call.result =
              IF call.arg \in DOMAIN overriden_colors THEN overriden_colors[call.arg]
              ELSE IF call.arg \in DOMAIN COLORS THEN COLORS[call.arg]
              ELSE IF "color_unknown" \in DOMAIN COLORS THEN COLORS["color_unknown"]
              ELSE <<0, 0, 0>>
        /\ Len(call.result) \in {3, 4}
        /\ call.overrides = overriden_colors
        /\ call.draws_before = random_draws

\* C7 witness: a name that is no role and has no override resolves to the
\* built-in UNKNOWN entry, also when UNKNOWN itself has an override.
C7_Witness ==
    /\ call.op = "get_color"
    /\ call.arg = "color_future"
    /\ DOMAIN overriden_colors = {"color_path", "color_unknown"}
    /\ call.result = <<0, 0, 0>>

\* C8 (as claimed): with no overrides, get_color returns for every role of
\* SupportedColor that role's own COLORS entry, and falls back to the UNKNOWN
\* entry only for a name that is no role.
C8_EveryRoleOwnEntry ==
    (call.op = "get_color" /\ DOMAIN overriden_colors = {}) =>
        /\ call.arg \in SupportedColor =>
              (call.arg \in DOMAIN COLORS /\ call.result = COLORS[call.arg])
        /\ call.arg \notin DOMAIN COLORS => call.arg \notin SupportedColor

\* C9 (as claimed): every room id is normalized to ((id - 1) mod 16) + 1 before
\* the lookup, so the result is the override or built-in colour of that key.
C9_NormalizesEveryId ==
    call.op = "get_room_color" =>
        /\ call.key = WrappedKey(call.id)
        /\ call.key \in DOMAIN ROOM_COLORS
        /\ call.result = Get(overriden_room_colors, call.key, ROOM_COLORS[call.key])

\* C9 (amended): for every room id >= 1, int or numeric string, the key looked
\* up is ((id - 1) mod 16) + 1 and the result is the override or else the
\* built-in colour of that key, whatever the random source drew; so ids >= 1
\* congruent modulo 16 get one colour, 17 that of 1 and 32 that of 16.
C9_NormalizesIdsFromOne ==
    (call.op = "get_room_color" /\ call.id >= 1) =>
        /\ call.key = WrappedKey(call.id)
        /\ call.key \in DOMAIN ROOM_COLORS
        /\ call.result = Get(overriden_room_colors, call.key, ROOM_COLORS[call.key])
        /\ call.id = 17 =>
              call.result = Get(overriden_room_colors, <<"1">>, ROOM_COLORS[<<"1">>])
        /\ call.id = 32 =>
              call.result = Get(overriden_room_colors, <<"1", "6">>, ROOM_COLORS[<<"1", "6">>])

\* C9 witness: the id 32 given as a string is looked up under "16" and gets the
\* override set for "16".
C9_Witness ==
    /\ call.op = "get_room_color"
    /\ call.arg.type = "str"
    /\ call.arg.v = <<"3", "2">>
    /\ call.key = <<"1", "6">>
    /\ call.result = <<21, 22, 23, 24>>

\* C10 (as claimed): a get_room_color call whose key is found in the override
\* mapping or in the built-in table draws nothing from the random source.
C10_NoDrawOnHit ==
    (/\ call.op = "get_room_color"
     /\ \/ call.key \in DOMAIN overriden_room_colors
        \/ call.key \in DOMAIN ROOM_COLORS)
        => random_draws = call.draws_before

(***************************************************************************)
(* Properties of draw_map                                                  *)
(***************************************************************************)

\* The renderer draw_map calls for each drawable kind
RendererOfKind ==
    [ charger |-> "_draw_charger",
      vacuum_position |-> "_draw_vacuum_position",
      obstacles |-> "_draw_obstacles",
      ignored_obstacles |-> "_draw_ignored_obstacles",
      obstacles_with_photo |-> "_draw_obstacles_with_photo",
      ignored_obstacles_with_photo |-> "_draw_ignored_obstacles_with_photo",
      mop_path |-> "_draw_mop_path",
      path |-> "_draw_vacuum_path",
      goto_path |-> "_draw_goto_path",
      predicted_path |-> "_draw_predicted_path",
      no_carpet_zones |-> "_draw_no_carpet_areas",
      no_go_zones |-> "_draw_no_go_areas",
      no_mopping_zones |-> "_draw_no_mopping_areas",
      virtual_walls |-> "_draw_walls",
      zones |-> "_draw_zones",
      cleaned_area |-> "_draw_layer",
      room_names |-> "_draw_room_names" ]

\* The renderer invocations due for the first n drawables
RECURSIVE ExpectedRenders(_)
ExpectedRenders(n) ==
    IF n = 0 THEN <<>>
    ELSE ExpectedRenders(n - 1) \o
         (IF drawables[n] \in Drawable
          THEN <<[ev |-> "render", fn |-> RendererOfKind[drawables[n]], entry |-> n]>>
          ELSE <<>>)

RotateEvent == <<[ev |-> "rotate", fn |-> "_rotate", entry |-> 0]>>

\* The text draws due for the first n texts
ExpectedTexts(n) == [k \in 1..n |-> [ev |-> "text", fn |-> "_draw_text", entry |-> k]]

IsElementCall(c) == c.phase = "element"

IsTextCall(c) == c.phase = "text"

\* C1: with an image, what draw_map has invoked at any point of the call is the
\* matching renderer for each drawable reached so far, in list order, once per
\* entry and nothing for an entry of no known kind; then, once the loop is
\* over, exactly one rotation; then one text draw per text reached so far, in
\* list order.  So no renderer runs after the rotation, no text is drawn
\* before it, and every compositor call of a text comes after all those of the
\* elements.
C1_DrawMapSequence ==
    entry.image # None =>
        /\ trace = CASE pc = "idle" -> <<>>
                     [] pc = "dispatching" -> ExpectedRenders(idx - 1)
                     [] pc = "rotating" -> ExpectedRenders(Len(drawables))
                     [] pc = "annotating" ->
                          ExpectedRenders(Len(drawables)) \o RotateEvent \o ExpectedTexts(idx - 1)
                     [] pc = "done" ->
                          ExpectedRenders(Len(drawables)) \o RotateEvent
                              \o ExpectedTexts(Len(texts))
        /\ \A m, n \in 1..Len(calls) :
              m < n => ~(calls[m].phase = "text" /\ calls[n].phase = "element")
        /\ LET drawn == SelectSeq(calls, IsTextCall)
           IN  /\ Len(drawn) = CASE pc = "annotating" -> idx - 1
                                 [] pc = "done" -> Len(texts)
                                 [] OTHER -> 0
               /\ \A k \in 1..Len(drawn) : drawn[k].entry = k

\* C1 witness: a finished call on a map with an image, whose drawables are a
\* string of no known kind and then the charger, and which has two texts: one
\* renderer, one rotation, two text draws.
C1_Witness ==
    /\ pc = "done"
    /\ entry.image # None
    /\ drawables = <<"future_kind", "charger">>
    /\ Len(texts) = 2
    /\ Len(trace) = 4
    /\ trace[1].fn = "_draw_charger"

\* C2: without an image draw_map invokes no renderer, no rotation and no text
\* draw, makes no compositor call, and leaves the MapData as it was, whatever
\* the drawables and the texts.
C2_NoImageNoOp ==
    entry.image = None =>
        /\ trace = <<>>
        /\ calls = <<>>
        /\ map_data = entry
        /\ pc \in {"idle", "done"}

\* C2 witness: draw_map has returned for a map with elements and no image,
\* with two drawables and two texts configured.
C2_Witness ==
    /\ pc = "done"
    /\ entry.image = None
    /\ entry.charger # None
    /\ Len(drawables) = 2
    /\ Len(texts) = 2

\* C3 (as claimed): draw_map changes only the pixel buffer of map_data.image;
\* every other field of the MapData, the heading of the vacuum position
\* included, and the image's dimensions and additional layers are as they were
\* on entry.
C3_OnlyPixelsChange ==
    map_data = IF entry.image = None THEN entry
               ELSE [entry EXCEPT !.image =
                        Some([The(entry.image) EXCEPT !.data = The(map_data.image).data])]

\* The MapData field a drawable kind is drawn from
FieldOfKind(kind, md) ==
    CASE kind = "charger" -> md.charger
      [] kind = "vacuum_position" -> md.vacuum_position
      [] kind = "obstacles" -> md.obstacles
      [] kind = "ignored_obstacles" -> md.ignored_obstacles
      [] kind = "obstacles_with_photo" -> md.obstacles_with_photo
      [] kind = "ignored_obstacles_with_photo" -> md.ignored_obstacles_with_photo
      [] kind = "mop_path" -> md.mop_path
      [] kind = "path" -> md.path
      [] kind = "goto_path" -> md.goto_path
      [] kind = "predicted_path" -> md.predicted_path
      [] kind = "no_carpet_zones" -> md.no_carpet_areas
      [] kind = "no_go_zones" -> md.no_go_areas
      [] kind = "no_mopping_zones" -> md.no_mopping_areas
      [] kind = "virtual_walls" -> md.walls
      [] kind = "zones" -> md.zones
      [] kind = "room_names" -> md.rooms
      [] kind = "cleaned_area" ->
           IF kind \in DOMAIN The(md.image).additional_layers
           THEN Some(The(md.image).additional_layers[kind])
           ELSE None

\* The area, zone and obstacle kinds
ListKinds ==
    { "obstacles", "ignored_obstacles", "obstacles_with_photo",
      "ignored_obstacles_with_photo", "no_carpet_zones", "no_go_zones",
      "no_mopping_zones", "zones" }

\* The renderer of this kind has nothing to draw
NothingToDraw(kind, md) ==
    /\ kind \in Drawable
    /\ \/ FieldOfKind(kind, md) = None
       \/ kind \in ListKinds /\ The(FieldOfKind(kind, md)) = <<>>

\* Every optional field of the map is None or holds nothing
AllNoneOrEmpty(md) ==
    /\ md.charger = None
    /\ md.vacuum_position = None
    /\ \A kind \in ListKinds \cup {"virtual_walls", "room_names"} :
          FieldOfKind(kind, md) = None \/ The(FieldOfKind(kind, md)) = <<>>
    /\ \A kind \in {"path", "goto_path", "predicted_path", "mop_path"} :
          \/ FieldOfKind(kind, md) = None
          \/ \A k \in 1..Len(The(FieldOfKind(kind, md)).path) :
                The(FieldOfKind(kind, md)).path[k] = <<>>
    /\ FieldOfKind("cleaned_area", md) = None

\* C4: a renderer whose field is None, or whose area, zone or obstacle list is
\* empty, makes no compositor call and leaves the MapData, pixels included, as
\* it was; and draw_map on a map whose optional fields are all None or empty
\* reaches the rotation with the pixels it was given.
C4_NothingToDrawNoTouch ==
    /\ [][(pc = "dispatching" /\ NothingToDraw(drawables[idx], map_data))
             => (map_data' = map_data /\ calls' = calls)]_vars
    /\ []((entry.image # None /\ AllNoneOrEmpty(entry) /\ pc = "rotating")
             => The(map_data.image).data = The(entry.image).data)

\* C4 witness: the loop is over for a map whose lists are all there and empty;
\* the renderers of an empty area list and of a path without points ran, made
\* no compositor call, and the pixels are those given.
C4_Witness ==
    /\ pc = "rotating"
    /\ entry.image # None
    /\ entry.no_go_areas = Some(<<>>)
    /\ drawables = <<"no_go_zones", "path">>
    /\ Len(trace) = 2
    /\ calls = <<>>
    /\ map_data = entry

\* The layer a compositor call put on the image: for a draw on the image
\* itself, what its primitives cover
PaintedBy(c) ==
    IF c.op.path = "direct"
    THEN PaintAll(NewImage(c.op.target_size[1], c.op.target_size[2], <<255, 255, 255, 0>>),
                  c.op.prims)
    ELSE The(c.op.painted)

\* The layers of the calls cs, each composited over the result of those before
RECURSIVE Replay(_, _)
Replay(buf, cs) ==
    IF cs = <<>> THEN buf
    ELSE Replay([buf EXCEPT !.px = [p \in DOMAIN buf.px |->
                                       Over(PaintedBy(Head(cs)).px[p], buf.px[p])]],
                Tail(cs))

\* The rotation has been done
Rotated == \E k \in 1..Len(trace) : trace[k].ev = "rotate"

\* C5: the pixels of the image are at any point those given on entry with the
\* layer of every compositor call so far composited over the result of all
\* earlier ones, in call order (the rotation turning what the elements
\* painted); the calls of a later entry of the drawables come after those of
\* every earlier entry; and where the layer of the latest call is opaque the
\* image shows exactly that layer's colour.
C5_PaintOrder ==
    entry.image # None =>
        /\ The(map_data.image).data =
              Replay(IF Rotated
                     THEN RotateExpand(Replay(The(entry.image).data,
                                              SelectSeq(calls, IsElementCall)),
                                       image_config.rotate)
                     ELSE Replay(The(entry.image).data, SelectSeq(calls, IsElementCall)),
                     SelectSeq(calls, IsTextCall))
        /\ \A m, n \in 1..Len(calls) :
              (m < n /\ calls[m].phase = calls[n].phase) => calls[m].entry <= calls[n].entry
        /\ (calls # <<>> /\ trace[Len(trace)].ev # "rotate") =>
              \A p \in DOMAIN The(map_data.image).data.px :
                  PaintedBy(calls[Len(calls)]).px[p][4] = 255 =>
                      The(map_data.image).data.px[p] = PaintedBy(calls[Len(calls)]).px[p]

\* C5 witness: the vacuum is drawn after the charger, and a pixel that the
\* charger covered shows the vacuum's opaque colour.
C5_Witness ==
    /\ pc = "rotating"
    /\ drawables = <<"charger", "vacuum_position">>
    /\ Len(calls) = 2
    /\ \E p \in DOMAIN The(map_data.image).data.px :
          /\ PaintedBy(calls[1]).px[p][4] # 0
          /\ PaintedBy(calls[2]).px[p][4] = 255
          /\ The(map_data.image).data.px[p] = PaintedBy(calls[2]).px[p]
          /\ The(map_data.image).data.px[p] # The(entry.image).data.px[p]

\* C6: every _draw_on_new_layer call runs its draw function once; it draws on
\* the image itself, with no layer and no composite, exactly when scale is 1
\* and use_transparency is false; otherwise it draws on a new layer of size
\* int(image.size * scale), resizes it to the image size exactly when scale is
\* not 1, and composites it once; and use_transparency is true exactly when a
\* colour passed has a 4th channel.
C6_LayerPathChoice ==
    \A k \in 1..Len(calls) :
        calls[k].op.path # "premade" =>
            /\ calls[k].op.path \in {"direct", "layer"}
            /\ calls[k].op.draw_function_calls = 1
            /\ calls[k].op.path = "direct" <=>
                  (calls[k].op.scale = ScaleDen /\ ~calls[k].op.use_transparency)
            /\ calls[k].op.path = "direct" =>
                  /\ calls[k].op.layer_size = None
                  /\ calls[k].op.painted = None
                  /\ calls[k].op.composites = 0
                  /\ ~calls[k].op.resized
            /\ calls[k].op.path = "layer" =>
                  /\ calls[k].op.layer_size =
                        Some(<<Scaled(calls[k].op.target_size[1], calls[k].op.scale),
                               Scaled(calls[k].op.target_size[2], calls[k].op.scale)>>)
                  /\ calls[k].op.resized <=> (calls[k].op.scale # ScaleDen)
                  /\ calls[k].op.composites = 1
                  /\ The(calls[k].op.painted).w = calls[k].op.target_size[1]
                  /\ The(calls[k].op.painted).h = calls[k].op.target_size[2]
            /\ calls[k].op.use_transparency <=>
                  (\E n \in 1..Len(calls[k].colors) : Len(calls[k].colors[n]) = 4)

\* C6 witness: a path in an opaque colour at scale 1.5 is drawn on a layer
\* of another size than the image, which is resized, and then a vacuum in opaque
\* colours is drawn on the image itself.
C6_Witness ==
    /\ Len(calls) = 2
    /\ calls[1].op.path = "layer"
    /\ calls[1].op.scale = 3
    /\ ~calls[1].op.use_transparency
    /\ calls[1].op.resized
    /\ calls[1].op.layer_size # Some(calls[1].op.target_size)
    /\ calls[2].op.path = "direct"


(***************************************************************************)
(* Properties of the geometry.  A position on the image is compared in     *)
(* 1/ScaleDen of a pixel: v pixels times a scale s is the whole number     *)
(* v * (s * ScaleDen) of them.                                             *)
(***************************************************************************)

\* The dimensions a geometry call was made under
DimsOf(a) == The(a.before.image).dimensions

\* The pluggable pre-transformation of the call, applied to its point
Transformed(a) == ApplyTransformation(DimsOf(a).img_transformation, a.point)

\* to_img maps p to ((T(p).x - left) * scale, (height - (T(p).y - top) - 1) * scale)
\* and leaves the point and the dimensions as they were
ToImgContract(a) ==
    /\ a.result.x = (Transformed(a).x - DimsOf(a).left) * DimsOf(a).scale
    /\ a.result.y = (DimsOf(a).height - (Transformed(a).y - DimsOf(a).top) - 1) * DimsOf(a).scale
    /\ subject = a.before

\* Dimensions with scale = 1 and left = top = 0
PlainDims(d) == d.scale = ScaleDen /\ d.left = 0 /\ d.top = 0

\* C11 as stated: to_img is pure and maps p to ((T(p).x - left) * scale,
\* (height - (T(p).y - top) - 1) * scale); and for every point p and every
\* dims d with scale = 1 and left = top = 0, to_img(p, d).y = d.height - p.y - 1.
C11_ToImgAxisFlip ==
    answer.op = "to_img" =>
        /\ ToImgContract(answer)
        /\ PlainDims(DimsOf(answer)) =>
               answer.result.y = (DimsOf(answer).height - answer.point.y - 1) * ScaleDen

\* C11, amended: to_img is pure and maps p to ((T(p).x - left) * scale,
\* (height - (T(p).y - top) - 1) * scale); for dims with scale = 1 and
\* left = top = 0 the y of the result is d.height - T(p).y - 1, which is
\* d.height - p.y - 1 when the pre-transformation is the identity.
C11_ToImgAxisFlipOfTransformed ==
    answer.op = "to_img" =>
        /\ ToImgContract(answer)
        /\ PlainDims(DimsOf(answer)) =>
               /\ answer.result.y =
                      (DimsOf(answer).height - Transformed(answer).y - 1) * ScaleDen
               /\ DimsOf(answer).img_transformation = "identity" =>
                      answer.result.y =
                          (DimsOf(answer).height - answer.point.y - 1) * ScaleDen

\* to_img has been asked on plain dimensions, with and without a remap of the
\* axes, for a point off the diagonal
C11_Witness ==
    /\ answer.op = "to_img"
    /\ PlainDims(DimsOf(answer))
    /\ DimsOf(answer).height = MaxSide
    /\ DimsOf(answer).img_transformation = "identity"
    /\ answer.point.x = 1 /\ answer.point.y = 0
    /\ answer.result.y = (MaxSide - 1) * ScaleDen


\* C12: for rotation 90, 180 and 270 the quarter turns of Point.rotated return
\* the point that the general formula (the turn about the centre of the image,
\* with the bounding box recomputed) gives at that angle, for every point and
\* every width, height and scale.
C12_QuarterTurnsAreGeneral ==
    (answer.op = "rotated" /\ DimsOf(answer).rotation \in {90, 180, 270}) =>
        answer.result =
            RotatedGeneral(DimsOf(answer).rotation, answer.point.x, answer.point.y,
                           ScaledSide(DimsOf(answer).width, DimsOf(answer).scale),
                           ScaledSide(DimsOf(answer).height, DimsOf(answer).scale))

\* A point of an image of 3 x 2 pixels at scale 1.5, which is 4 x 3 pixels, has
\* been turned by 270 degrees: (0.5, 0) is then (3, 0.5)
C12_Witness ==
    /\ answer.op = "rotated"
    /\ DimsOf(answer).rotation = 270
    /\ DimsOf(answer).scale = ScaleDen + 1
    /\ DimsOf(answer).width = MaxSide /\ DimsOf(answer).height = MaxSide - 1
    /\ answer.point.x = 1 /\ answer.point.y = 0
    /\ answer.result.x = (((MaxSide - 1) * (ScaleDen + 1)) \div ScaleDen) * ScaleDen
    /\ answer.result.y = 1


\* The map position calibration() has to give for the vacuum position (x, y)
MapOf(x, y, dims) == rotated(ImageDimensions_to_img(dims, Point(x, y, None)), dims)

\* The entry calibration() has to give for the vacuum position (x, y)
EntryOf(x, y, dims) ==
    [ vacuum |-> [x |-> x, y |-> y],
      map |-> [x |-> MapOf(x, y, dims).x, y |-> MapOf(x, y, dims).y] ]

\* The MapData of the call has an image that is not empty
HasMap(a) == a.before.image # None /\ ~The(a.before.image).is_empty

\* C13: on a MapData with a non-empty image calibration() returns exactly three
\* entries, in this order, with vacuum fields (c, c), (c + 10 d, c) and
\* (c, c + 10 d) for the calibration centre c and diff d (centre 0 and diff 1
\* give (0, 0), (10, 0), (0, 10)), the map field of each being
\* rotated(to_img(vacuum point)) under the image's dimensions; the MapData and
\* its image are left as they were.
C13_CalibrationPoints ==
    (answer.op = "calibration" /\ HasMap(answer)) =>
        /\ answer.result # None
        /\ The(answer.result) =
              << EntryOf(answer.before.calibration_center,
                         answer.before.calibration_center, DimsOf(answer)),
                 EntryOf(answer.before.calibration_center
                            + 10 * answer.before.calibration_diff,
                         answer.before.calibration_center, DimsOf(answer)),
                 EntryOf(answer.before.calibration_center,
                         answer.before.calibration_center
                            + 10 * answer.before.calibration_diff, DimsOf(answer)) >>
        /\ (answer.before.calibration_center = 0 /\ answer.before.calibration_diff = 1) =>
              /\ The(answer.result)[1].vacuum = [x |-> 0, y |-> 0]
              /\ The(answer.result)[2].vacuum = [x |-> 10, y |-> 0]
              /\ The(answer.result)[3].vacuum = [x |-> 0, y |-> 10]
        /\ subject = answer.before

\* calibration() has been called with centre 0 and diff 1 on an image of 3 x 2
\* pixels at scale 1.5 turned by 90 degrees: the vacuum position (10, 0) is at
\* (1.5, -11) on the map
C13_Witness ==
    /\ answer.op = "calibration"
    /\ HasMap(answer)
    /\ answer.before.calibration_center = 0 /\ answer.before.calibration_diff = 1
    /\ DimsOf(answer).rotation = 90 /\ DimsOf(answer).scale = ScaleDen + 1
    /\ DimsOf(answer).width = MaxSide /\ DimsOf(answer).height = MaxSide - 1
    /\ DimsOf(answer).left = 0 /\ DimsOf(answer).top = 0
    /\ DimsOf(answer).img_transformation = "identity"
    /\ Len(The(answer.result)) = 3
    /\ The(answer.result)[2].vacuum = [x |-> 10, y |-> 0]
    /\ The(answer.result)[2].map.x = (MaxSide - 2) * (ScaleDen + 1)


\* The MapData is a placeholder made by MapDataParser.create_empty
IsPlaceholder(md) == \E text \in CaptionArgs : md = create_empty(text)

\* C14: calibration() returns null exactly when map_data.image is None or the
\* image's is_empty flag is set, and a list of three entries otherwise; on the
\* placeholder MapData of MapDataParser.create_empty it always returns null.
C14_NullWithoutMap ==
    /\ answer.op = "calibration" =>
          /\ answer.result = None <=> ~HasMap(answer)
          /\ answer.result # None => Len(The(answer.result)) = 3
          /\ IsPlaceholder(answer.before) => answer.result = None
    /\ answer.op = "create_empty" =>
          /\ IsPlaceholder(subject)
          /\ The(subject.image).is_empty

\* calibration() has been called on the placeholder with the caption NO MAP
C14_Witness ==
    /\ answer.op = "calibration"
    /\ answer.before = create_empty(<<"N", "O", " ", "M", "A", "P">>)
    /\ answer.before.image # None
    /\ answer.result = None


\* C15: ImageData.is_empty is true exactly when the image described by its
\* ImageDimensions has zero width or zero height, for every top, left, height
\* and width and every trim configuration given to the constructor.
C15_EmptyIffZeroSide ==
    answer.op = "ImageData" =>
        (answer.result.is_empty <=>
            (answer.result.dimensions.width = 0 \/ answer.result.dimensions.height = 0))


\* The MAP_OUTSIDE colour as the palette of the call resolves it
Background(a) == Get(a.colors, "color_map_outside", COLORS["color_map_outside"])

\* C16: create_empty_map_image always gives an image of 300 x 200 whose
\* background is the resolved MAP_OUTSIDE colour and whose caption is black
\* (0, 0, 0) when the R, G and B channels of the background sum to more than
\* 382 and white (255, 255, 255) when they sum to 382 or less; alpha is left
\* out of the sum.
C16_PlaceholderCaption ==
    answer.op = "create_empty_map_image" =>
        /\ answer.result.w = 300 /\ answer.result.h = 200
        /\ answer.result.background = Ink(Background(answer))
        /\ answer.result.caption.text = answer.text
        /\ (Background(answer)[1] + Background(answer)[2] + Background(answer)[3] > 382)
              => answer.result.caption.fill = <<0, 0, 0>>
        /\ (Background(answer)[1] + Background(answer)[2] + Background(answer)[3] <= 382)
              => answer.result.caption.fill = <<255, 255, 255>>

\* The placeholder has been made on a background whose channels sum to 382
C16_Witness ==
    /\ answer.op = "create_empty_map_image"
    /\ answer.colors = [color_map_outside |-> <<127, 127, 128>>]
    /\ answer.result.background = <<127, 127, 128, 255>>
    /\ answer.result.caption.fill = <<255, 255, 255>>


(***************************************************************************)
(* Properties of path rendering                                            *)
(***************************************************************************)

\* The image-space positions of the points of a polyline
ImagePositions(dims, points) == [n \in 1..Len(points) |-> to_img(dims, points[n])]

\* The same positions on a layer scale times the size of the image
LayerPositions(dims, points, scale) ==
    [n \in 1..Len(points) |-> PointTimes(to_img(dims, points[n]), scale)]

\* A round cap of the width of the line, centred on c
CapAt(c, width, color) ==
    Prim("pieslice", c.x - (width \div 2), c.y - (width \div 2),
         c.x + (width \div 2), c.y + (width \div 2), Some(color), Some(color), <<0, 360>>)

\* The segments joining the positions n, n + 1, ... in order, each followed by
\* its caps when the path is capped: the first segment by one on either end,
\* the others by one on their far end
RECURSIVE SegmentsJoining(_, _, _, _, _)
SegmentsJoining(positions, n, width, color, capped) ==
    IF n >= Len(positions) THEN <<>>
    ELSE << Line(positions[n].x, positions[n].y, positions[n + 1].x, positions[n + 1].y,
                 width, color) >>
         \o (IF capped /\ n = 1 THEN << CapAt(positions[1], width, color) >> ELSE <<>>)
         \o (IF capped THEN << CapAt(positions[n + 1], width, color) >> ELSE <<>>)
         \o SegmentsJoining(positions, n + 1, width, color, capped)

\* The polylines one after the other, in image space as C18 states them: the
\* width of a segment is scale * configured width, and the path is capped
\* when that width is greater than 4
RECURSIVE StatedPath(_, _, _, _, _)
StatedPath(dims, polylines, scale, path_width, color) ==
    IF polylines = <<>> THEN <<>>
    ELSE SegmentsJoining(ImagePositions(dims, Head(polylines)), 1,
                         Scaled(path_width, scale), color,
                         path_width * scale > 4 * ScaleDen)
         \o StatedPath(dims, Tail(polylines), scale, path_width, color)

\* The polylines one after the other, on the layer: the width of a segment is
\* int(scale * configured width), and the path is capped when the configured
\* width is greater than 4
RECURSIVE LayerPath(_, _, _, _, _)
LayerPath(dims, polylines, scale, path_width, color) ==
    IF polylines = <<>> THEN <<>>
    ELSE SegmentsJoining(LayerPositions(dims, Head(polylines), scale), 1,
                         Scaled(path_width, scale), color, path_width > 4)
         \o LayerPath(dims, Tail(polylines), scale, path_width, color)

\* The configured width of a kind of path
WidthOfKind(kind) == get_size(IF kind = "mop_path" THEN "mop_path_width" ELSE "path_width")

\* The compositor calls made for entry k of the drawables
CallsOfEntry(k) == {n \in 1..Len(calls) : calls[n].phase = "element" /\ calls[n].entry = k}

\* Entry k of the drawables has been handled
Dispatched(k) == pc \in {"rotating", "annotating", "done"} \/ (pc = "dispatching" /\ k < idx)

\* The dimensions of a 100 x 100 image at scale 1, not rotated and not trimmed
Dims100 ==
    ImageData(10000, 0, 0, 100, 100, DefaultImageConfig, InputPixels(0, 0), "identity", None).dimensions

\* The scenario of C18: the path [[(0, 0), (10, 0)]] of width 1 on Dims100 is
\* one segment on row 99 from column 0 to column 10, and no cap
Row99(prims) ==
    /\ Len(prims) = 1
    /\ prims[1].shape = "line"
    /\ prims[1].x0 = 0 /\ prims[1].x1 = 10
    /\ prims[1].y0 = 99 /\ prims[1].y1 = 99
    /\ prims[1].arg = 1

\* C18 as stated: path rendering draws for each polyline of n >= 2 points n - 1
\* segments joining consecutive points in order, each of width scale *
\* configured width with its ends at the image-space positions of the points,
\* and caps at the joins exactly when that width is greater than 4; a polyline
\* of 0 or 1 points draws nothing; on a 100 x 100 image at scale 1 the path
\* [[(0, 0), (10, 0)]] of width 1 is one segment on row 99 from column 0 to 10.
C18_PathSegments ==
    /\ \A k \in 1..Len(drawables) :
          (drawables[k] \in PathKinds /\ Dispatched(k)) =>
              /\ Cardinality(CallsOfEntry(k)) =
                    IF Len(The(FieldOfKind(drawables[k], entry)).path) < 1 THEN 0 ELSE 1
              /\ \A n \in CallsOfEntry(k) :
                    calls[n].op.prims =
                        StatedPath(The(entry.image).dimensions,
                                   The(FieldOfKind(drawables[k], entry)).path,
                                   image_config.scale, WidthOfKind(drawables[k]),
                                   calls[n].colors[1])
    /\ Row99(PathDrawFunc(Dims100, << <<Point(0, 0, None), Point(10, 0, None)>> >>,
                          ScaleDen, 1, <<0, 0, 0>>))

\* C18, amended: path rendering draws on a layer scale times the size of the
\* image, which is then reduced onto the image; for each polyline of n >= 2
\* points it draws n - 1 segments joining consecutive points in order, each of
\* width int(scale * configured width) on the layer with its ends at scale
\* times the image-space positions of the points, and caps at the joins
\* exactly when the configured width is greater than 4; a polyline of 0 or 1
\* points draws nothing; on a 100 x 100 image at scale 1 the path
\* [[(0, 0), (10, 0)]] of width 1 is one segment on row 99 from column 0 to 10.
C18_PathSegmentsOnLayer ==
    /\ \A k \in 1..Len(drawables) :
          (drawables[k] \in PathKinds /\ Dispatched(k)) =>
              /\ Cardinality(CallsOfEntry(k)) =
                    IF Len(The(FieldOfKind(drawables[k], entry)).path) < 1 THEN 0 ELSE 1
              /\ \A n \in CallsOfEntry(k) :
                    /\ calls[n].op.scale = image_config.scale
                    /\ calls[n].op.prims =
                          LayerPath(The(entry.image).dimensions,
                                    The(FieldOfKind(drawables[k], entry)).path,
                                    image_config.scale, WidthOfKind(drawables[k]),
                                    calls[n].colors[1])
    /\ Row99(PathDrawFunc(Dims100, << <<Point(0, 0, None), Point(10, 0, None)>> >>,
                          ScaleDen, 1, <<0, 0, 0>>))

\* A path of three polylines of three, one and two points has been drawn at
\* scale 2 in the configured width 3: three segments of width 6 and no cap
C18_Witness ==
    /\ pc = "done"
    /\ drawables = <<"path">>
    /\ image_config.scale = 2 * ScaleDen
    /\ get_size("path_width") = 3
    /\ Len(The(entry.path).path) = 3
    /\ Len(calls) >= 1
    /\ Len(calls[1].op.prims) = 3
    /\ \A n \in 1..3 : calls[1].op.prims[n].shape = "line" /\ calls[1].op.prims[n].arg = 6


(***************************************************************************)
(* Properties of text rendering                                            *)
(***************************************************************************)

\* Entry k of the texts has been drawn
TextHandled(k) == pc = "done" \/ (pc = "annotating" /\ k < idx)

\* The compositor calls made for entry k of the texts
CallsOfText(k) == {n \in 1..Len(calls) : calls[n].phase = "text" /\ calls[n].entry = k}

\* The events of one kind logged for entry k of the texts
FontEventsOf(k, ev) == {n \in 1..Len(font_trace) : font_trace[n].text = k /\ font_trace[n].ev = ev}

\* No font file is configured, or font_size is None or not positive
NoFontAsked(text_config) ==
    \/ text_config.font = None
    \/ text_config.font_size = None
    \/ The(text_config.font_size) <= 0

\* The text of the entry is drawn once, by one draw call, in the default font
DrawnOnceInDefaultFont(k) ==
    /\ Cardinality(CallsOfText(k)) = 1
    /\ \A n \in CallsOfText(k) :
          /\ calls[n].op.draw_function_calls = 1
          /\ Len(calls[n].op.prims) = 1
          /\ calls[n].op.prims[1].shape = "text"
          /\ calls[n].op.prims[1].arg.text = texts[k].text
          /\ calls[n].op.prims[1].arg.font = None

\* C19: a text draw never fails the render because of its font: when loading
\* the configured font file raises OSError or ImportError a warning is logged,
\* the default font is used and the text is drawn exactly once; when no font
\* file is configured, or font_size is None or not positive, no font load is
\* attempted and the text is drawn once in the default font.
C19_FontFallback ==
    \A k \in 1..Len(texts) :
        (map_data.image # None /\ TextHandled(k)) =>
            /\ NoFontAsked(texts[k]) =>
                  /\ FontEventsOf(k, "truetype") = {}
                  /\ FontEventsOf(k, "warning") = {}
                  /\ DrawnOnceInDefaultFont(k)
            /\ (~NoFontAsked(texts[k])
                   /\ truetype(The(texts[k].font)) \in {"OSError", "ImportError"}) =>
                  /\ Cardinality(FontEventsOf(k, "truetype")) = 1
                  /\ Cardinality(FontEventsOf(k, "warning")) = 1
                  /\ DrawnOnceInDefaultFont(k)

\* Two texts have been drawn, the first in a font Pillow cannot open and the
\* second in one that is missing: two loads, two warnings and two draw calls
C19_Witness ==
    /\ pc = "done"
    /\ Len(texts) = 2
    /\ texts[1].font = Some("font.otf") /\ texts[1].font_size = Some(2)
    /\ texts[2].font = Some("missing.ttf") /\ texts[2].font_size = Some(2)
    /\ Len(font_trace) = 4
    /\ font_trace[2].ev = "warning" /\ font_trace[4].ev = "warning"
    /\ font_trace[2].message # font_trace[4].message
    /\ DrawnOnceInDefaultFont(1) /\ DrawnOnceInDefaultFont(2)


(***************************************************************************)
(* Properties of repeated draw_map calls                                   *)
(***************************************************************************)

\* The draw_map calls that have run to their end
CallsDone == Len(Returns) + (IF pc = "done" THEN 1 ELSE 0)

\* The buffer turned k times by the configured angle
RECURSIVE TurnedTimes(_, _, _)
TurnedTimes(buf, rotation, k) ==
    IF k = 0 THEN buf ELSE TurnedTimes(RotateExpand(buf, rotation), rotation, k - 1)

\* C20: rotation is applied once per draw_map call to whatever the buffer
\* holds, and image.dimensions.rotation is never updated by it: after k calls
\* on the same MapData the buffer has been turned k times by the configured
\* angle (for 90 degrees width and height are swapped after every odd number
\* of calls, and the buffer is as it was after 4 calls), so that a second call
\* does not reproduce the result of the first.
C20_RotatedEveryCall ==
    /\ The(map_data.image).dimensions = The(entry.image).dimensions
    /\ pc = "done" =>
          /\ The(map_data.image).data.w =
                 TurnedTimes(The(entry.image).data, image_config.rotate, CallsDone).w
          /\ The(map_data.image).data.h =
                 TurnedTimes(The(entry.image).data, image_config.rotate, CallsDone).h
          /\ (drawables = <<>> /\ texts = <<>>) =>
                 The(map_data.image).data =
                     TurnedTimes(The(entry.image).data, image_config.rotate, CallsDone)
          /\ image_config.rotate = 90 =>
                 /\ (The(map_data.image).data.w = The(entry.image).data.h
                        /\ The(map_data.image).data.h = The(entry.image).data.w)
                       <=> CallsDone % 2 = 1
                 /\ (CallsDone = 4 /\ drawables = <<>> /\ texts = <<>>) =>
                        The(map_data.image).data = The(entry.image).data
          /\ (CallsDone = 2 /\ image_config.rotate % 360 # 0) =>
                 map_data.image # Returns[1].result

\* Four calls with a rotation of 90 degrees and nothing to draw have run: the
\* first result is turned, the fourth is the buffer as it was
C20_Witness ==
    /\ pc = "done"
    /\ CallsDone = 4
    /\ image_config.rotate = 90
    /\ drawables = <<>> /\ texts = <<>>
    /\ The(Returns[1].result).data.w = ImgHeight
    /\ The(Returns[1].result).data.h = ImgWidth + 1
    /\ The(Returns[1].result).data # The(entry.image).data
    /\ The(map_data.image).data = The(entry.image).data


(***************************************************************************)
(* Properties of two draw_map calls at the same time                       *)
(***************************************************************************)

\* The MapData a draw_map call leaves when no other call runs
RECURSIVE RunAlone(_)
RunAlone(r) == IF r.pc = "done" THEN r.map_data ELSE RunAlone(StepOfCall(r))

\* C17: two draw_map calls that run at the same time, each on a MapData and
\* ImageData of its own and both on the same palette, sizes, drawables and
\* texts, do not interfere: under every interleaving of their steps the final
\* image of each is the image the call produces when it runs alone, and the
\* shared colour and size override mappings are never written.
C17_NoInterference ==
    /\ [](pc = "done" => map_data.image = RunAlone(RenderCall(entry)).image)
    /\ [](other.pc = "done" => other.map_data.image = RunAlone(RenderCall(other.entry)).image)
    /\ [][ /\ overriden_colors' = overriden_colors
           /\ overriden_room_colors' = overriden_room_colors
           /\ overriden_sizes' = overriden_sizes
           /\ drawables' = drawables
           /\ texts' = texts
           /\ image_config' = image_config ]_vars

\* The second call has run from its start to its end while the first stands
\* in its drawables loop, one entry drawn and one to draw; the second call has
\* left the image it leaves when it runs alone, and the first call its own
C17_Witness ==
    /\ pc = "dispatching" /\ idx = 2
    /\ drawables = <<"path", "vacuum_position">>
    /\ other.pc = "done"
    /\ other.map_data.image # None
    /\ other.map_data.image # other.entry.image
    /\ other.map_data.image = RunAlone(RenderCall(other.entry)).image
    /\ map_data.image # entry.image
    /\ The(map_data.image).data # The(other.map_data.image).data

====
